---- MODULE Spec2Model ----
(***************************************************************************)
(* FileFlip ebook pipeline (src/lib/ebook-utils.ts): the text layout       *)
(* engine (wrapText), the PDF exporter's pagination, the router, the EPUB  *)
(* parser/exporter, the readable-text extractor, the CBZ parser, the       *)
(* Markdown and RTF exporters; the converter components, the lazily        *)
(* initialized engines, the audio conversion and the useFx hook. Each is   *)
(* a state machine with its own specification.                             *)
(*                                                                         *)
(* Strings are sequences of symbols. For wrapText a symbol is one          *)
(* character; for the markup pipeline a symbol is a word, a space or a     *)
(* newline, which is exact for the whitespace regexes the code applies.    *)
(***************************************************************************)
EXTENDS Integers, Sequences, FiniteSets, TLC

VARIABLES
  \* ---- wrapText(text, font, size, maxWidth) ----
  text,       \* the argument text, a sequence of characters
  font,       \* character -> width: font.widthOfTextAtSize at the given size
  maxWidth,   \* the argument maxWidth
  words,      \* the words the outer loop has not visited yet
  line,       \* let line
  lines,      \* const lines
  chunk,      \* let chunk of the character fallback
  chars,      \* the characters the inner loop has not visited yet
  wpc,        \* position: "words" | "chars" | "done" | "idle"
  \* ---- modelToPDF(model) / textToPdf(text) ----
  pfn,        \* which exporter runs: "modelToPDF" | "textToPdf" | "idle"
  model,      \* the BookModel: [chapters, images]
  y,          \* let y, in tenths of a point
  pages,      \* the number of pages added with pdf.addPage
  ci,         \* index of the chapter in `for (const ch of model.chapters)`
  pi,         \* index i of `for (let i = 0; i < parts.length; i++)`, from 1
  tlines,     \* textToPdf: how many lines wrapText returned for the text
  pending,    \* lines of the running pushLine / line loop not yet drawn
  drawnText,  \* <<chapter, part>> of every text segment given to pushLine
  baselines,  \* the y of every page.drawText so far
  drawnImgs,  \* [x, y, w, h, scaleNum, scaleDen] of every page.drawImage so far
  ppc,        \* position in the exporter
  \* ---- parseAnyToModel(file, onProgress) ----
  fileName,   \* file.name, a sequence of characters
  kind,       \* const kind = sniffSource(file.name)
  invoked,    \* the format parsers called so far, in order
  rerr,       \* the message of the error the call rejected with, or ""
  rpc,        \* position in parseAnyToModel
  \* ---- parseEPUBToModel(buf, onProgress), modelToEPUB(model) ----
  zip,        \* the archive being parsed
  round,      \* 1: the given archive; 2: the archive modelToEPUB wrote
  epc,        \* position in parseEPUBToModel
  reads,      \* the paths of the entries read so far, in order
  progress,   \* the fractions given to onProgress so far, in order
  eerr,       \* the message of the error thrown, or ""
  rootfile,   \* const rootfile
  meta,       \* const title, author
  manifest,   \* const manifest, in the order of Object.values
  spineIds,   \* const spineIds
  si,         \* the spine loop's i, from 1
  chapters,   \* const chapters
  imageHrefs, \* const imageHrefs, in insertion order, those not yet loaded
  images,     \* const images
  book,       \* the model returned by the running parse
  book1,      \* the model the first parse returned
  \* ---- the text routes ----
  tsrc,       \* what the route starts from: "txt" | "model"
  txtFile,    \* the content of the .txt file
  tbook,      \* the BookModel
  tplain,     \* modelToText(tbook)
  tsingle,    \* modelToSingleHTML(tbook)
  tbook2,     \* parseHTMLToModel(tsingle)
  tplain2,    \* modelToText(tbook2)
  tpc,        \* position in the route
  \* ---- normalize(p), on its own ----
  npath,      \* the argument p, a sequence of segments and "/" marks
  nout,       \* normalize(p)
  nagain,     \* normalize(normalize(p))
  npc,        \* position: "call" | "once" | "twice" | "idle"
  \* ---- parseCBZToModel(buf) ----
  cbz,        \* the names of the archive's entries, in archive order
  cfiles,     \* const files: the image entries, sorted
  cidx,       \* how many of files the loop has done
  cchapters,  \* const chapters
  cimages,    \* const images
  cerr,       \* the message of the error thrown, or ""
  cbook,      \* the model returned
  cpc,        \* position: "load" | "files" | "returned" | "failed" | "idle"
  \* ---- modelToMarkdown(model) ----
  mbook,      \* the argument model
  mi,         \* how many chapters .map has done
  mparts,     \* htmlToMd of the chapters done, in order
  mout,       \* the string returned
  mpc,        \* position: "map" | "done" | "idle"
  \* ---- EbookConverter.convert(f, t) ----
  vfile,      \* f.name, a sequence of characters
  vtarget,    \* t, the target format
  verror,     \* the state error
  voutUrl,    \* the state outUrl
  voutName,   \* the state outName
  vconverting, \* the state converting
  vprogress,  \* the state progress
  vout,       \* what exportModel resolved with: [kind, type]
  vblob,      \* the Blob given to URL.createObjectURL: [type]
  vfailed,    \* which await rejected: "none" | "parse" | "export"
  vcount,     \* how many times onConvert was called
  vpc,        \* position: "ready" | "parsing" | "exporting" | "done" | "idle"
  \* ---- getFfmpeg() and getPdfjs(), called by several callers ----
  gFfmpeg,    \* let _ffmpeg: the instance, or 0 for null
  gLoading,   \* let _loading: "null" | "pending" | "fulfilled" | "rejected"
  created,    \* how many times new FFmpeg() ran
  fcall,      \* caller -> position in getFfmpeg
  fres,       \* caller -> the instance getFfmpeg resolved with, or 0
  gPdfjs,     \* let _pdfjs: the module namespace, or 0 for null
  imports,    \* how many times import("pdfjs-dist/...") was started
  pcall,      \* caller -> position in getPdfjs
  pres,       \* caller -> the namespace getPdfjs resolved with, or 0
  \* ---- convertAll() of the image converter ----
  bfiles,     \* files: for each dropped file, the await of its pass that rejects, or "ok"
  bi,         \* the loop index i, from 1
  bout,       \* const out: the indices of the files recorded so far
  bresults,   \* the state results
  bbusy,      \* the state busy
  berror,     \* the state error
  bprogress,  \* the state progress
  bstarted,   \* the files whose decodeFile has been called
  bfinished,  \* the files whose animation-frame yield has completed
  bpc,        \* position in convertAll
  \* ---- textToRtf(text) ----
  rtfText,    \* the argument text, a sequence of characters
  rtfOut,     \* the string returned
  rtfPc,      \* position: "call" | "returned" | "idle"
  \* ---- convertAudioBrowser(file, target, onProgress), several calls on the shared engine ----
  acalls,     \* call -> [cb: onProgress was given, fate: the step that throws, or "ok"]
  apc,        \* call -> position in convertAudioBrowser
  handlers,   \* the calls whose handler is attached to the engine for "progress"
  notified,   \* the calls whose onProgress has been invoked
  late,       \* the calls whose onProgress was invoked after they had settled
  \* ---- useFx(base) ----
  fxBase,     \* the prop base of the latest render, "" before the mount
  fxMounted,  \* the component is mounted
  fxData,     \* the state data: the base of the rates held, or "null"
  fxLoading,  \* the state loading
  fxErr,      \* the state err
  fxRuns,     \* the effects run so far: [base, cancelled, pc]
  fxStale     \* the runs that changed data, err or loading after their cleanup

wrapVars == <<text, font, maxWidth, words, line, lines, chunk, chars, wpc>>
pdfVars == <<pfn, model, tlines, y, pages, ci, pi, pending, drawnText, baselines,
             drawnImgs, ppc>>
routerVars == <<fileName, kind, invoked, rerr, rpc>>
epubVars == <<zip, round, epc, reads, progress, eerr, rootfile, meta, manifest,
              spineIds, si, chapters, imageHrefs, images, book, book1>>
textVars == <<tsrc, txtFile, tbook, tplain, tsingle, tbook2, tplain2, tpc>>
pathVars == <<npath, nout, nagain, npc>>
cbzVars == <<cbz, cfiles, cidx, cchapters, cimages, cerr, cbook, cpc>>
mdVars == <<mbook, mi, mparts, mout, mpc>>
convVars == <<vfile, vtarget, verror, voutUrl, voutName, vconverting, vprogress, vout,
              vblob, vfailed, vcount, vpc>>
engineVars == <<gFfmpeg, gLoading, created, fcall, fres, gPdfjs, imports, pcall, pres>>
batchVars == <<bfiles, bi, bout, bresults, bbusy, berror, bprogress, bstarted,
               bfinished, bpc>>
rtfVars == <<rtfText, rtfOut, rtfPc>>
audioVars == <<acalls, apc, handlers, notified, late>>
fxVars == <<fxBase, fxMounted, fxData, fxLoading, fxErr, fxRuns, fxStale>>
vars == <<wrapVars, pdfVars, routerVars, epubVars, textVars, pathVars, cbzVars, mdVars,
          convVars, engineVars, batchVars, rtfVars, audioVars, fxVars>>

\* what the actions of one subsystem leave alone
wrapOthers == <<pdfVars, routerVars, epubVars, textVars, pathVars, cbzVars, mdVars,
                convVars, engineVars, batchVars, rtfVars, audioVars, fxVars>>
pdfOthers == <<wrapVars, routerVars, epubVars, textVars, pathVars, cbzVars, mdVars,
               convVars, engineVars, batchVars, rtfVars, audioVars, fxVars>>
routerOthers == <<wrapVars, pdfVars, epubVars, textVars, pathVars, cbzVars, mdVars,
                  convVars, engineVars, batchVars, rtfVars, audioVars, fxVars>>
epubOthers == <<wrapVars, pdfVars, routerVars, textVars, pathVars, cbzVars, mdVars,
                convVars, engineVars, batchVars, rtfVars, audioVars, fxVars>>
textOthers == <<wrapVars, pdfVars, routerVars, epubVars, pathVars, cbzVars, mdVars,
                convVars, engineVars, batchVars, rtfVars, audioVars, fxVars>>
pathOthers == <<wrapVars, pdfVars, routerVars, epubVars, textVars, cbzVars, mdVars,
                convVars, engineVars, batchVars, rtfVars, audioVars, fxVars>>
cbzOthers == <<wrapVars, pdfVars, routerVars, epubVars, textVars, pathVars, mdVars,
               convVars, engineVars, batchVars, rtfVars, audioVars, fxVars>>
mdOthers == <<wrapVars, pdfVars, routerVars, epubVars, textVars, pathVars, cbzVars,
              convVars, engineVars, batchVars, rtfVars, audioVars, fxVars>>
convOthers == <<wrapVars, pdfVars, routerVars, epubVars, textVars, pathVars, cbzVars,
                mdVars, engineVars, batchVars, rtfVars, audioVars, fxVars>>
engineOthers == <<wrapVars, pdfVars, routerVars, epubVars, textVars, pathVars, cbzVars,
                  mdVars, convVars, batchVars, rtfVars, audioVars, fxVars>>
batchOthers == <<wrapVars, pdfVars, routerVars, epubVars, textVars, pathVars, cbzVars,
                 mdVars, convVars, engineVars, rtfVars, audioVars, fxVars>>
rtfOthers == <<wrapVars, pdfVars, routerVars, epubVars, textVars, pathVars, cbzVars,
               mdVars, convVars, engineVars, batchVars, audioVars, fxVars>>
audioOthers == <<wrapVars, pdfVars, routerVars, epubVars, textVars, pathVars, cbzVars,
                 mdVars, convVars, engineVars, batchVars, rtfVars, fxVars>>
fxOthers == <<wrapVars, pdfVars, routerVars, epubVars, textVars, pathVars, cbzVars,
              mdVars, convVars, engineVars, batchVars, rtfVars, audioVars>>

(***************************************************************************)
(* Generic helpers                                                         *)
(***************************************************************************)
BSeq(S, n) == UNION {[1..k -> S] : k \in 0..n}

RECURSIVE Concat(_)
Concat(ss) == IF ss = <<>> THEN <<>> ELSE Head(ss) \o Concat(Tail(ss))

RECURSIVE SumLen(_)
SumLen(ss) == IF ss = <<>> THEN 0 ELSE Len(Head(ss)) + SumLen(Tail(ss))

(***************************************************************************)
(* wrapText                                                                *)
(***************************************************************************)
MaxTextLen == 5
MaxCharW == 2
MaxLineW == 3

WrapAlphabet == {"a", "b", " "}

\* /\s/ on the characters of the alphabet
IsSpace(c) == c \in {" ", "\n"}

\* text.split(/\s+/).filter(Boolean)
RECURSIVE SplitWords(_, _, _)
SplitWords(s, cur, acc) ==
  IF s = <<>> THEN (IF cur = <<>> THEN acc ELSE Append(acc, cur))
  ELSE IF IsSpace(Head(s))
       THEN SplitWords(Tail(s), <<>>, IF cur = <<>> THEN acc ELSE Append(acc, cur))
       ELSE SplitWords(Tail(s), Append(cur, Head(s)), acc)

\* widthOf = (s) => font.widthOfTextAtSize(s, size)
RECURSIVE widthOf(_, _)
widthOf(s, f) == IF s = <<>> THEN 0 ELSE f[Head(s)] + widthOf(Tail(s), f)

\* the mutant of TooWide: the comparison is off by one
TooWideOffByOne(s, f, mw) == widthOf(s, f) > mw + 1

\* widthOf(x) > maxWidth
TooWide(s, f, mw) == widthOf(s, f) > mw

\* if (line) lines.push(line)
PushLine(ls, s) == IF s # <<>> THEN Append(ls, s) ELSE ls

\* the mutant of TestLine: the separating space is dropped
TestLineNoSpace(ln, w) == ln \o w

\* const test = line ? `${line} ${w}` : w
TestLine(ln, w) == IF ln # <<>> THEN ln \o <<" ">> \o w ELSE w

WrapInit ==
  /\ text \in BSeq(WrapAlphabet, MaxTextLen)
  /\ font \in [WrapAlphabet -> 1..MaxCharW]
  /\ maxWidth \in 1..MaxLineW
  /\ words = SplitWords(text, <<>>, <<>>)
  /\ line = <<>>
  /\ lines = <<>>
  /\ chunk = <<>>
  /\ chars = <<>>
  /\ wpc = "words"

\* one iteration of `for (const w of words)`
WrapWord ==
  /\ wpc = "words"
  /\ words # <<>>
  /\ LET w == Head(words)
         test == TestLine(line, w)
     IN  /\ words' = Tail(words)
         /\ IF ~TooWide(test, font, maxWidth)
            THEN /\ line' = test
                 /\ UNCHANGED <<lines, chunk, chars, wpc>>
            ELSE /\ lines' = PushLine(lines, line)
                 /\ IF TooWide(w, font, maxWidth)
                    THEN /\ chunk' = <<>>
                         /\ chars' = w
                         /\ wpc' = "chars"
                         /\ UNCHANGED line
                    ELSE /\ line' = w
                         /\ UNCHANGED <<chunk, chars, wpc>>
  /\ UNCHANGED <<text, font, maxWidth>>
  /\ UNCHANGED wrapOthers

\* one iteration of `for (const ch of w.split(""))`
WrapChar ==
  /\ wpc = "chars"
  /\ chars # <<>>
  /\ LET ch == Head(chars)
         t == chunk \o <<ch>>
     IN  /\ chars' = Tail(chars)
         /\ IF TooWide(t, font, maxWidth)
            THEN /\ lines' = PushLine(lines, chunk)
                 /\ chunk' = <<ch>>
            ELSE /\ chunk' = t
                 /\ UNCHANGED lines
  /\ UNCHANGED <<text, font, maxWidth, words, line, wpc>>
  /\ UNCHANGED wrapOthers

\* the end of the character loop: line = chunk
WrapCharsEnd ==
  /\ wpc = "chars"
  /\ chars = <<>>
  /\ line' = chunk
  /\ wpc' = "words"
  /\ UNCHANGED <<text, font, maxWidth, words, lines, chunk, chars>>
  /\ UNCHANGED wrapOthers

\* after the loop: if (line) lines.push(line); return lines
WrapReturn ==
  /\ wpc = "words"
  /\ words = <<>>
  /\ lines' = PushLine(lines, line)
  /\ wpc' = "done"
  /\ UNCHANGED <<text, font, maxWidth, words, line, chunk, chars>>
  /\ UNCHANGED wrapOthers

WrapIdle ==
  /\ text = <<>> /\ font = <<>> /\ maxWidth = 0 /\ words = <<>> /\ line = <<>>
  /\ lines = <<>> /\ chunk = <<>> /\ chars = <<>> /\ wpc = "idle"

WrapNext == WrapWord \/ WrapChar \/ WrapCharsEnd \/ WrapReturn

\* a variant of the two loops: what is left to visit
RECURSIVE WordsWork(_)
WordsWork(ws) == IF ws = <<>> THEN 0 ELSE Len(Head(ws)) + 2 + WordsWork(Tail(ws))

WrapMeasure ==
  WordsWork(words) + Len(chars)
    + (IF wpc = "chars" THEN 1 ELSE 0) + (IF wpc = "done" THEN 0 ELSE 1)

\* the words of one returned line (they are separated by single spaces)
LineWords(ln) == SplitWords(ln, <<>>, <<>>)

RECURSIVE AllLineWords(_)
AllLineWords(ls) ==
  IF ls = <<>> THEN <<>> ELSE LineWords(Head(ls)) \o AllLineWords(Tail(ls))

\* the pieces regroup into the tokens: each token is the concatenation of the
\* next k >= 1 pieces, and k > 1 only for a token the fallback split
RECURSIVE Regroups(_, _)
Regroups(pieces, toks) ==
  IF toks = <<>> THEN pieces = <<>>
  ELSE \E k \in 1..Len(pieces) :
         /\ Concat(SubSeq(pieces, 1, k)) = Head(toks)
         /\ (k > 1 => TooWide(Head(toks), font, maxWidth))
         /\ Regroups(SubSeq(pieces, k + 1, Len(pieces)), Tail(toks))

\* every line pushed so far fits, or is a single character
LinesFit ==
  \A i \in 1..Len(lines) :
    widthOf(lines[i], font) <= maxWidth \/ Len(lines[i]) = 1

(* C9: every returned line is at most maxWidth wide unless it is a single
   character, for every width function of the family, and every step of the
   two loops consumes input (WrapMeasure strictly decreases and stays a
   natural number), so the call terminates. *)
C9_WrapTerminatesAndFits ==
  /\ [](LinesFit /\ WrapMeasure \in Nat)
  /\ [][WrapMeasure' < WrapMeasure]_vars

\* a finished call in which the fallback left a single character wider than
\* maxWidth on a line of its own, next to a line that fits
C9_Witness ==
  /\ wpc = "done"
  /\ \E i \in 1..Len(lines) : Len(lines[i]) = 1 /\ widthOf(lines[i], font) > maxWidth
  /\ \E i \in 1..Len(lines) : widthOf(lines[i], font) <= maxWidth

(* C10: when the call has returned, the words of the returned lines, in
   order, regroup into exactly the input's tokens (chunks of a split token
   re-joined), and no returned line is empty. *)
C10_NothingLost ==
  wpc = "done" =>
    /\ Regroups(AllLineWords(lines), SplitWords(text, <<>>, <<>>))
    /\ \A i \in 1..Len(lines) : lines[i] # <<>>

\* a finished call where a token was split and its last chunk shares a line
\* with the next token
C10_Witness ==
  /\ wpc = "done"
  /\ Len(SplitWords(text, <<>>, <<>>)) >= 2
  /\ Len(AllLineWords(lines)) > Len(SplitWords(text, <<>>, <<>>))
  /\ \E i \in 1..Len(lines) : Len(LineWords(lines[i])) >= 2

(***************************************************************************)
(* modelToPDF and textToPdf: pagination                                    *)
(*                                                                         *)
(* Lengths are in tenths of a point, so that lineHeight = fontSize * 1.4   *)
(* and lineHeight * 0.5 are integers. A chapter's html is a sequence of    *)
(* tokens: a run of markup and text that wrapText lays out in n lines      *)
(* (n = 0: nothing is left after stripAllHtml), or an <img> tag the        *)
(* exporter's regex matches, with its src as path segments.                *)
(***************************************************************************)
MaxChapters == 2
MaxHtmlTokens == 3

PageWidth == 612
PageHeight == 792
Margin == 36
FontSize == 12
TextPdfFontSize == 10

\* const lineHeight = fontSize * 1.4, in tenths of a point
LineHeight(fn) == (IF fn = "textToPdf" THEN TextPdfFontSize ELSE FontSize) * 14
\* const maxWidth = pageWidth - margin * 2, in points
PdfMaxWidth == PageWidth - Margin * 2
\* pageHeight - margin, in tenths of a point
TopY == (PageHeight - Margin) * 10
BottomY == Margin * 10

\* how many lines one page holds: the claims' yardstick, not the code's
LinesPerPage(fn) == (TopY - BottomY) \div LineHeight(fn)

\* model.images of the exports checked: id -> [fmt, w, h]; fmt is what the
\* bytes really are, which decides whether embedPng / embedJpg throws
PdfImages ==
  [id \in {"a.png", "t.jpg", "w.png", "bad.gif"} |->
     CASE id = "a.png"   -> [fmt |-> "png", w |-> 100, h |-> 100]
       [] id = "t.jpg"   -> [fmt |-> "jpg", w |-> 500, h |-> 800]
       [] id = "w.png"   -> [fmt |-> "png", w |-> 1080, h |-> 400]
       [] id = "bad.gif" -> [fmt |-> "gif", w |-> 10, h |-> 10]]

ImgSrcs == {<<"media", "a.png">>, <<"t.jpg">>, <<"img", "w.png">>,
            <<"bad.gif">>, <<"missing.png">>}

TextTok(n) == [k |-> "text", n |-> n, src |-> <<>>]
ImgTok(src) == [k |-> "img", n |-> 0, src |-> src]

HtmlTokens ==
  {TextTok(n) : n \in {1, LinesPerPage("modelToPDF") + 1}}
    \cup {ImgTok(s) : s \in ImgSrcs}

\* two text runs never touch: they would be one run
HtmlSeqs(n) ==
  {h \in BSeq(HtmlTokens, n) :
     \A i \in 1..(Len(h) - 1) : ~(h[i].k = "text" /\ h[i + 1].k = "text")}

\* model.chapters: a token sequence cut into chapters at "break" marks
ChapterBreak == [k |-> "break", n |-> 0, src |-> <<>>]

RECURSIVE CutChapters(_, _, _)
CutChapters(h, cur, acc) ==
  IF h = <<>> THEN Append(acc, cur)
  ELSE IF Head(h).k = "break" THEN CutChapters(Tail(h), <<>>, Append(acc, cur))
       ELSE CutChapters(Tail(h), Append(cur, Head(h)), acc)

PdfChapterSeqs ==
  {<<>>} \cup
  {CutChapters(f, <<>>, <<>>) :
     f \in {g \in BSeq(HtmlTokens \cup {ChapterBreak}, MaxHtmlTokens + MaxChapters - 1) :
              /\ Cardinality({i \in 1..Len(g) : g[i].k = "break"}) < MaxChapters
              /\ Cardinality({i \in 1..Len(g) : g[i].k # "break"}) <= MaxHtmlTokens
              /\ \A i \in 1..(Len(g) - 1) : ~(g[i].k = "text" /\ g[i + 1].k = "text")}}

\* (ch.html || "").split(/<img[^>]+src=["'][^"']+["'][^>]*>/gi), each part
\* as the number of lines its stripped text wraps to
RECURSIVE SplitParts(_, _, _)
SplitParts(h, cur, acc) ==
  IF h = <<>> THEN Append(acc, cur)
  ELSE IF Head(h).k = "img" THEN SplitParts(Tail(h), 0, Append(acc, cur))
       ELSE SplitParts(Tail(h), cur + Head(h).n, acc)

Parts(h) == SplitParts(h, 0, <<>>)

\* Array.from((ch.html || "").matchAll(/<img[^>]+src=["']([^"']+)["'][^>]*>/gi)),
\* each match as its group 1
RECURSIVE ImgTags(_)
ImgTags(h) ==
  IF h = <<>> THEN <<>>
  ELSE IF Head(h).k = "img" THEN <<Head(h).src>> \o ImgTags(Tail(h))
       ELSE ImgTags(Tail(h))

\* m[1].split("/").pop() || m[1]
Basename(src) == src[Len(src)]

\* the mutant of TryEmbed: the inner catch is missing
TryEmbedNoInnerCatch(asset) ==
  IF asset.fmt = "png" THEN "png" ELSE IF asset.fmt = "jpg" THEN "jpg" ELSE "throw"

\* try { embedPng } catch { try { embedJpg } catch { img = undefined } }
TryEmbed(asset) ==
  IF asset.fmt = "png" THEN "png" ELSE IF asset.fmt = "jpg" THEN "jpg" ELSE "undefined"

\* the mutant of NeedsNewPage: y is compared instead of y - lineHeight
NeedsNewPageLate(yy, h) == yy < BottomY

\* if (y - lineHeight < margin), if (y - h < margin)
NeedsNewPage(yy, h) == yy - h < BottomY

\* const scale = Math.min(maxWidth / iw, 1) as the fraction num / den
ScaleNum(iw) == IF PdfMaxWidth < iw THEN PdfMaxWidth ELSE 1
ScaleDen(iw) == IF PdfMaxWidth < iw THEN iw ELSE 1
\* iw * scale and ih * scale in tenths of a point (exact for PdfImages)
Scaled(len, iw) == (len * 10 * ScaleNum(iw)) \div ScaleDen(iw)

PdfInit ==
  /\ \/ /\ pfn = "modelToPDF"
        /\ model \in {[chapters |-> cs, images |-> PdfImages] : cs \in PdfChapterSeqs}
        /\ tlines = 0
     \/ /\ pfn = "textToPdf"
        /\ model = [chapters |-> <<>>, images |-> <<>>]
        /\ tlines \in 0..(LinesPerPage("textToPdf") + 2)
  /\ pending = 0
  /\ y = 0
  /\ pages = 0
  /\ ci = 1
  /\ pi = 1
  /\ drawnText = <<>>
  /\ baselines = {}
  /\ drawnImgs = {}
  /\ ppc = "start"

PdfIdle ==
  /\ pfn = "idle" /\ model = <<>> /\ tlines = 0 /\ y = 0 /\ pages = 0 /\ ci = 0 /\ pi = 0
  /\ pending = 0 /\ drawnText = <<>> /\ baselines = {} /\ drawnImgs = {}
  /\ ppc = "idle"

\* let page = pdf.addPage(...); let y = pageHeight - margin
PdfStart ==
  /\ ppc = "start"
  /\ pages' = 1
  /\ y' = TopY
  /\ pending' = IF pfn = "textToPdf" THEN tlines ELSE 0
  /\ ppc' = IF pfn = "textToPdf" THEN "textLines"
            ELSE IF model.chapters = <<>> THEN "save" ELSE "part"
  /\ UNCHANGED <<pfn, model, tlines, ci, pi, drawnText, baselines, drawnImgs>>
  /\ UNCHANGED pdfOthers

\* const text = stripAllHtml(parts[i]).trim(); if (text) pushLine(text)
PdfPart ==
  /\ ppc = "part"
  /\ LET n == Parts(model.chapters[ci])[pi]
     IN  IF n > 0
         THEN /\ pending' = n
              /\ drawnText' = Append(drawnText, <<ci, pi>>)
              /\ ppc' = "lines"
         ELSE /\ ppc' = "img"
              /\ UNCHANGED <<pending, drawnText>>
  /\ UNCHANGED <<pfn, model, tlines, y, pages, ci, pi, baselines, drawnImgs>>
  /\ UNCHANGED pdfOthers

\* one iteration of `for (const ln of lines)` of pushLine, and of
\* `for (const line of lines)` of textToPdf
DrawLine ==
  /\ pending > 0
  /\ LET lh == LineHeight(pfn)
         np == NeedsNewPage(y, lh)
         y0 == IF np THEN TopY ELSE y
     IN  /\ pages' = IF np THEN pages + 1 ELSE pages
         /\ baselines' = baselines \cup {y0 - lh}
         /\ y' = y0 - lh
  /\ pending' = pending - 1
  /\ UNCHANGED <<pfn, model, tlines, ci, pi, drawnText, drawnImgs, ppc>>
  /\ UNCHANGED pdfOthers

PdfDrawLine == ppc = "lines" /\ DrawLine

\* pushLine returns
PdfLinesEnd ==
  /\ ppc = "lines"
  /\ pending = 0
  /\ ppc' = "img"
  /\ UNCHANGED <<pfn, model, tlines, y, pages, ci, pi, pending, drawnText, baselines,
                 drawnImgs>>
  /\ UNCHANGED pdfOthers

\* const m = imgTags[i]; if (m) { ... page.drawImage ... }, then i++
PdfImage ==
  /\ ppc = "img"
  /\ LET h == model.chapters[ci]
         tags == ImgTags(h)
         file == IF pi <= Len(tags) THEN Basename(tags[pi]) ELSE ""
         known == pi <= Len(tags) /\ file \in DOMAIN model.images
         img == IF known THEN TryEmbed(model.images[file]) ELSE "undefined"
         last == pi = Len(Parts(h))
     IN  IF img = "throw"
         THEN /\ ppc' = "failed"
              /\ UNCHANGED <<y, pages, pi, drawnImgs>>
         ELSE /\ IF img = "undefined"
                 THEN UNCHANGED <<y, pages, drawnImgs>>
                 ELSE LET a == model.images[file]
                          w == Scaled(a.w, a.w)
                          ht == Scaled(a.h, a.w)
                          np == NeedsNewPage(y, ht)
                          y0 == IF np THEN TopY ELSE y
                      IN  /\ pages' = IF np THEN pages + 1 ELSE pages
                          /\ drawnImgs' = drawnImgs \cup
                               {[x |-> Margin * 10, y |-> y0 - ht, w |-> w, h |-> ht,
                                 scaleNum |-> ScaleNum(a.w), scaleDen |-> ScaleDen(a.w)]}
                          /\ y' = y0 - (ht + LineHeight(pfn) \div 2)
              /\ pi' = pi + 1
              /\ ppc' = IF last THEN "chapterEnd" ELSE "part"
  /\ UNCHANGED <<pfn, model, tlines, ci, pending, drawnText, baselines>>
  /\ UNCHANGED pdfOthers

\* y -= lineHeight; if (y < margin + lineHeight) { addPage }; next chapter
PdfChapterEnd ==
  /\ ppc = "chapterEnd"
  /\ LET y1 == y - LineHeight(pfn)
         np == y1 < BottomY + LineHeight(pfn)
     IN  /\ pages' = IF np THEN pages + 1 ELSE pages
         /\ y' = IF np THEN TopY ELSE y1
  /\ ci' = ci + 1
  /\ pi' = 1
  /\ ppc' = IF ci = Len(model.chapters) THEN "save" ELSE "part"
  /\ UNCHANGED <<pfn, model, tlines, pending, drawnText, baselines, drawnImgs>>
  /\ UNCHANGED pdfOthers

\* return pdf.save()
PdfSave ==
  /\ ppc = "save"
  /\ ppc' = "done"
  /\ UNCHANGED <<pfn, model, tlines, y, pages, ci, pi, pending, drawnText, baselines,
                 drawnImgs>>
  /\ UNCHANGED pdfOthers

\* textToPdf: the line loop
TextPdfDrawLine == ppc = "textLines" /\ DrawLine

\* textToPdf: return await pdf.save()
TextPdfSave ==
  /\ ppc = "textLines"
  /\ pending = 0
  /\ ppc' = "done"
  /\ UNCHANGED <<pfn, model, tlines, y, pages, ci, pi, pending, drawnText, baselines,
                 drawnImgs>>
  /\ UNCHANGED pdfOthers

PdfNext ==
  \/ PdfStart \/ PdfPart \/ PdfDrawLine \/ PdfLinesEnd \/ PdfImage
  \/ PdfChapterEnd \/ PdfSave \/ TextPdfDrawLine \/ TextPdfSave

\* the text segments of the model that are not empty, in document order
RECURSIVE NonEmptyParts(_, _, _)
NonEmptyParts(c, ps, i) ==
  IF i > Len(ps) THEN <<>>
  ELSE (IF ps[i] > 0 THEN <<(<<c, i>>)>> ELSE <<>>) \o NonEmptyParts(c, ps, i + 1)

RECURSIVE ExpectedTexts(_, _)
ExpectedTexts(cs, c) ==
  IF c > Len(cs) THEN <<>>
  ELSE NonEmptyParts(c, Parts(cs[c]), 1) \o ExpectedTexts(cs, c + 1)

IsPrefix(s, t) == Len(s) <= Len(t) /\ SubSeq(t, 1, Len(s)) = s

RECURSIVE SumSeq(_)
SumSeq(s) == IF s = <<>> THEN 0 ELSE Head(s) + SumSeq(Tail(s))

\* an <img> of chapter c the exporter cannot draw: no asset under its
\* basename, or bytes that are neither PNG nor JPEG
Unresolvable(src) ==
  \/ Basename(src) \notin DOMAIN PdfImages
  \/ PdfImages[Basename(src)].fmt \notin {"png", "jpg"}

(* C7: every text line modelToPDF and textToPdf draw has its baseline at or
   above the bottom margin and below the top margin, whatever was drawn
   before it; and a finished export of a chapter (or text) whose lines
   outnumber what one page holds has at least 2 pages. *)
C7_BaselinesInsideMargins ==
  /\ \A b \in baselines : BottomY <= b /\ b <= TopY
  /\ (ppc = "done" /\ pfn = "modelToPDF") =>
       \A c \in 1..Len(model.chapters) :
         SumSeq(Parts(model.chapters[c])) > LinesPerPage(pfn) => pages >= 2
  /\ (ppc = "done" /\ pfn = "textToPdf") =>
       (tlines > LinesPerPage(pfn) => pages >= 2)

\* a finished modelToPDF that drew a tall image and then a text of more
\* lines than one page holds, on 2 pages or more
C7_Witness ==
  /\ ppc = "done" /\ pfn = "modelToPDF"
  /\ drawnImgs # {}
  /\ \E c \in 1..Len(model.chapters) :
       SumSeq(Parts(model.chapters[c])) > LinesPerPage(pfn)
  /\ pages >= 2
  /\ \E b \in baselines : b < BottomY + LineHeight(pfn)

(* C24: every image modelToPDF draws lies inside the page's margin box: it *)
(* is at x = margin, its width is at most page width - 2 * margin, its      *)
(* scale factor is at most 1, and its bottom edge is at or above the        *)
(* bottom margin, whatever the pixel size of the embedded image.            *)
C24_ImagesInsideMarginBox ==
  \A d \in drawnImgs :
     /\ d.x = Margin * 10
     /\ d.w <= PdfMaxWidth * 10
     /\ d.scaleNum <= d.scaleDen
     /\ d.y >= BottomY
     /\ d.y + d.h <= TopY

(* C8: modelToPDF never aborts because of an image: an <img> with no asset
   under its basename, or whose bytes embed neither as PNG nor as JPEG, is
   skipped, and the text segments given to pushLine are always a prefix of,
   and at the end exactly, the non-empty text segments in document order. *)
C8_ImagesNeverAbort ==
  pfn = "modelToPDF" =>
    /\ ppc # "failed"
    /\ IsPrefix(drawnText, ExpectedTexts(model.chapters, 1))
    /\ ppc = "done" => drawnText = ExpectedTexts(model.chapters, 1)

\* a finished export of a chapter with text, an unresolvable image, text
C8_Witness ==
  /\ ppc = "done" /\ pfn = "modelToPDF"
  /\ \E c \in 1..Len(model.chapters) :
       LET h == model.chapters[c]
       IN  /\ Len(h) = 3
           /\ h[1].k = "text" /\ h[2].k = "img" /\ h[3].k = "text"
           /\ Unresolvable(h[2].src)
           /\ <<c, 1>> = drawnText[1] /\ <<c, 2>> = drawnText[2]
  /\ drawnImgs = {}

(***************************************************************************)
(* Router: sniffSource and parseAnyToModel                                 *)
(*                                                                         *)
(* A file name is a sequence of characters, built from dictionary          *)
(* segments joined by '.'.                                                 *)
(***************************************************************************)
MaxNameSegs == 2

NameSegments ==
  { <<"e","p","u","b">>, <<"E","P","U","B">>, <<"p","d","f">>, <<"c","b","z">>,
    <<"f","b","2">>, <<"h","t","m","l">>, <<"h","t","m">>, <<"H","t","m">>,
    <<"h","t","m","l","z">>, <<"t","x","t">>, <<"T","x","T">>,
    <<"t","x","t","z">>, <<"e","x","e">>, <<"b","o","o","k">>, <<>> }

RECURSIVE JoinWith(_, _)
JoinWith(segs, sep) ==
  IF Len(segs) = 0 THEN <<>>
  ELSE IF Len(segs) = 1 THEN segs[1]
  ELSE segs[1] \o <<sep>> \o JoinWith(Tail(segs), sep)

FileNames == {JoinWith(segs, ".") : segs \in BSeq(NameSegments, MaxNameSegs) \ {<<>>}}

\* String.prototype.split(sep) for a one-character separator
RECURSIVE SplitOn(_, _, _, _)
SplitOn(s, sep, cur, acc) ==
  IF s = <<>> THEN Append(acc, cur)
  ELSE IF Head(s) = sep THEN SplitOn(Tail(s), sep, <<>>, Append(acc, cur))
       ELSE SplitOn(Tail(s), sep, Append(cur, Head(s)), acc)

Split(s, sep) == SplitOn(s, sep, <<>>, <<>>)

\* Array.prototype.pop(): the last element
Last(a) == a[Len(a)]

\* String.prototype.toLowerCase on the characters in use
LowerChar(c) ==
  CASE c = "E" -> "e" [] c = "P" -> "p" [] c = "U" -> "u" [] c = "B" -> "b"
    [] c = "H" -> "h" [] c = "T" -> "t" [] OTHER -> c

ToLowerCase(s) == [i \in 1..Len(s) |-> LowerChar(s[i])]

\* the mutant of sniffSource: the extension is compared as written
SniffSourceCaseSensitive(name) ==
  LET ext == Last(Split(name, "."))
  IN  CASE ext = <<"e","p","u","b">> -> "epub"
        [] ext = <<"p","d","f">> -> "pdf"
        [] ext = <<"c","b","z">> -> "cbz"
        [] ext = <<"f","b","2">> -> "fb2"
        [] ext \in {<<"h","t","m","l">>, <<"h","t","m">>} -> "html"
        [] ext = <<"h","t","m","l","z">> -> "htmlz"
        [] ext = <<"t","x","t">> -> "txt"
        [] ext = <<"t","x","t","z">> -> "txtz"
        [] OTHER -> "null"

\* sniffSource(fileName): SourceKind | null
sniffSource(name) ==
  LET ext == ToLowerCase(Last(Split(name, ".")))
  IN  CASE ext = <<"e","p","u","b">> -> "epub"
        [] ext = <<"p","d","f">> -> "pdf"
        [] ext = <<"c","b","z">> -> "cbz"
        [] ext = <<"f","b","2">> -> "fb2"
        [] ext \in {<<"h","t","m","l">>, <<"h","t","m">>} -> "html"
        [] ext = <<"h","t","m","l","z">> -> "htmlz"
        [] ext = <<"t","x","t">> -> "txt"
        [] ext = <<"t","x","t","z">> -> "txtz"
        [] OTHER -> "null"

\* the switch of parseAnyToModel: the parser each kind is given to
ParserOf(k) ==
  CASE k = "epub" -> "parseEPUBToModel"
    [] k = "pdf" -> "parsePDFToModelAsImages"
    [] k = "cbz" -> "parseCBZToModel"
    [] k = "fb2" -> "parseFB2ToModel"
    [] k = "html" -> "parseHTMLToModel"
    [] k = "htmlz" -> "parseHTMLZToModel"
    [] k = "txt" -> "parseTXTToModel"
    [] k = "txtz" -> "parseTXTZToModel"

RouterInit ==
  /\ fileName \in FileNames
  /\ kind = "unset"
  /\ invoked = <<>>
  /\ rerr = ""
  /\ rpc = "start"

RouterIdle ==
  /\ fileName = <<>> /\ kind = "unset" /\ invoked = <<>> /\ rerr = ""
  /\ rpc = "idle"

\* const buf = await file.arrayBuffer()
RouterReadFile ==
  /\ rpc = "start"
  /\ rpc' = "sniff"
  /\ UNCHANGED <<fileName, kind, invoked, rerr>>
  /\ UNCHANGED routerOthers

\* const kind = sniffSource(file.name); if (!kind) throw new Error(...)
RouterSniff ==
  /\ rpc = "sniff"
  /\ kind' = sniffSource(fileName)
  /\ IF kind' = "null"
     THEN rerr' = "Unsupported input" /\ rpc' = "failed"
     ELSE rerr' = rerr /\ rpc' = "dispatch"
  /\ UNCHANGED <<fileName, invoked>>
  /\ UNCHANGED routerOthers

\* switch (kind) { case ...: return parseXToModel(buf, ...) }
RouterDispatch ==
  /\ rpc = "dispatch"
  /\ invoked' = Append(invoked, ParserOf(kind))
  /\ rpc' = "parsing"
  /\ UNCHANGED <<fileName, kind, rerr>>
  /\ UNCHANGED routerOthers

\* the parser's promise settles: a BookModel, or the parser's own error
RouterParserSettles ==
  /\ rpc = "parsing"
  /\ \E ok \in BOOLEAN :
       IF ok THEN rpc' = "done" /\ rerr' = rerr
       ELSE rpc' = "failed" /\ rerr' = "parser error"
  /\ UNCHANGED <<fileName, kind, invoked>>
  /\ UNCHANGED routerOthers

RouterNext ==
  RouterReadFile \/ RouterSniff \/ RouterDispatch \/ RouterParserSettles

\* the claims' reading of a name: it has an extension when it contains a
\* '.', and the extension is the text after the last '.', lower-cased
HasExtension(name) == \E i \in 1..Len(name) : name[i] = "."
ExtensionOf(name) == ToLowerCase(Last(Split(name, ".")))

SupportedExtensions ==
  { <<"e","p","u","b">>, <<"p","d","f">>, <<"c","b","z">>, <<"f","b","2">>,
    <<"h","t","m","l">>, <<"h","t","m">>, <<"h","t","m","l","z">>,
    <<"t","x","t">>, <<"t","x","t","z">> }

ExpectedParser(ext) ==
  CASE ext = <<"e","p","u","b">> -> "parseEPUBToModel"
    [] ext = <<"p","d","f">> -> "parsePDFToModelAsImages"
    [] ext = <<"c","b","z">> -> "parseCBZToModel"
    [] ext = <<"f","b","2">> -> "parseFB2ToModel"
    [] ext = <<"h","t","m","l">> -> "parseHTMLToModel"
    [] ext = <<"h","t","m">> -> "parseHTMLToModel"
    [] ext = <<"h","t","m","l","z">> -> "parseHTMLZToModel"
    [] ext = <<"t","x","t">> -> "parseTXTToModel"
    [] ext = <<"t","x","t","z">> -> "parseTXTZToModel"
    [] OTHER -> "none"

(* C1: for a file name with an extension (the text after its last '.',
   compared lower-cased): outside the nine supported extensions,
   parseAnyToModel ends with the 'Unsupported input' error and no parser is
   ever invoked; inside, it never raises that error and the parsers invoked
   are exactly the one parser of that extension's kind. *)
C1_UnsupportedBeforeParsing ==
  HasExtension(fileName) =>
    IF ExtensionOf(fileName) \notin SupportedExtensions
    THEN /\ invoked = <<>>
         /\ rpc \notin {"dispatch", "parsing", "done"}
         /\ rpc = "failed" => rerr = "Unsupported input"
    ELSE /\ rerr # "Unsupported input"
         /\ invoked \in {<<>>, <<ExpectedParser(ExtensionOf(fileName))>>}
         /\ rpc \in {"parsing", "done"} =>
              invoked = <<ExpectedParser(ExtensionOf(fileName))>>

\* a name with an unsupported extension was rejected with no parser invoked
C1_Witness ==
  /\ HasExtension(fileName)
  /\ ExtensionOf(fileName) \notin SupportedExtensions
  /\ rpc = "failed" /\ rerr = "Unsupported input" /\ invoked = <<>>

(* C29: sniffSource decides the kind from a real extension only: for a     *)
(* name that contains no '.' it returns null, so the file is rejected as    *)
(* unsupported input and no parser is invoked.                              *)
C29_NoDotNoKind ==
  (~HasExtension(fileName) /\ kind # "unset") =>
     /\ kind = "null"
     /\ invoked = <<>>
     /\ rpc = "failed" /\ rerr = "Unsupported input"

(***************************************************************************)
(* Markup: html strings, the DOM, extractReadableText, the TXT and HTML    *)
(* parsers, modelToText and modelToSingleHTML                              *)
(*                                                                         *)
(* A text is a sequence of symbols: words ("A", "B", "<" ...), " " and     *)
(* "\n". An html string is a sequence of tokens: text (with '<' written    *)
(* "&lt;"), open and close tags, <br>, <hr> and <img> with its attributes  *)
(* in order. The DOM of a body is the same sequence in document order with *)
(* text decoded and adjacent text merged.                                  *)
(***************************************************************************)
MaxTxtLen == 4

Txt(s) == [k |-> "text", tag |-> "", s |-> s, attrs |-> <<>>]
Open(t) == [k |-> "open", tag |-> t, s |-> <<>>, attrs |-> <<>>]
Close(t) == [k |-> "close", tag |-> t, s |-> <<>>, attrs |-> <<>>]
Void(t) == [k |-> "void", tag |-> t, s |-> <<>>, attrs |-> <<>>]
\* an <img> with attributes <<name, value>>; a src value is a path
Img(attrs) == [k |-> "void", tag |-> "img", s |-> <<>>, attrs |-> attrs]

\* `undefined` and "" for a title or an author: both are falsy wherever the
\* code reads them
Undefined == <<>>
\* images: {}
NoImages == [id \in {} |-> <<>>]
\* no model yet
NoModel == [title |-> Undefined, author |-> Undefined, chapters |-> <<>>,
            images |-> NoImages]

IsWs(c) == c \in {" ", "\n"}

\* escapeXml on the symbols in use
EscapeSymbol(c) ==
  CASE c = "&" -> "&amp;"
    [] c = "<" -> "&lt;"
    [] c = ">" -> "&gt;"
    [] c = "\"" -> "&quot;"
    [] OTHER -> c
escapeXml(s) == [i \in 1..Len(s) |-> EscapeSymbol(s[i])]

\* the markup parser's decoding of character references in text
DecodeSymbol(c) ==
  CASE c = "&amp;" -> "&"
    [] c = "&lt;" -> "<"
    [] c = "&gt;" -> ">"
    [] c = "&quot;" -> "\""
    [] OTHER -> c
DecodeText(s) == [i \in 1..Len(s) |-> DecodeSymbol(s[i])]

\* String.prototype.trim
RECURSIVE TrimStart(_)
TrimStart(s) == IF s # <<>> /\ IsWs(Head(s)) THEN TrimStart(Tail(s)) ELSE s
RECURSIVE TrimEnd(_)
TrimEnd(s) ==
  IF s # <<>> /\ IsWs(s[Len(s)]) THEN TrimEnd(SubSeq(s, 1, Len(s) - 1)) ELSE s
Trim(s) == TrimEnd(TrimStart(s))

\* .replace(/\s+/g, " ")
RECURSIVE CollapseWs(_)
CollapseWs(s) ==
  IF s = <<>> THEN <<>>
  ELSE IF IsWs(Head(s)) THEN <<" ">> \o CollapseWs(TrimStart(s))
       ELSE <<Head(s)>> \o CollapseWs(Tail(s))

\* the length of the run of c at the start of s
RECURSIVE RunLen(_, _)
RunLen(s, c) == IF s # <<>> /\ Head(s) = c THEN 1 + RunLen(Tail(s), c) ELSE 0

Drop(s, n) == SubSeq(s, n + 1, Len(s))

\* .replace(/[ \t]+\n/g, "\n")
RECURSIVE StripSpacesBeforeNewline(_)
StripSpacesBeforeNewline(s) ==
  IF s = <<>> THEN <<>>
  ELSE LET n == RunLen(s, " ")
       IN  IF n > 0
           THEN IF n < Len(s) /\ s[n + 1] = "\n"
                THEN StripSpacesBeforeNewline(Drop(s, n))
                ELSE SubSeq(s, 1, n) \o StripSpacesBeforeNewline(Drop(s, n))
           ELSE <<Head(s)>> \o StripSpacesBeforeNewline(Tail(s))

\* .replace(/\n{3,}/g, "\n\n")
RECURSIVE CollapseNewlines(_)
CollapseNewlines(s) ==
  IF s = <<>> THEN <<>>
  ELSE LET n == RunLen(s, "\n")
       IN  IF n >= 3 THEN <<"\n", "\n">> \o CollapseNewlines(Drop(s, n))
           ELSE IF n > 0 THEN SubSeq(s, 1, n) \o CollapseNewlines(Drop(s, n))
           ELSE <<Head(s)>> \o CollapseNewlines(Tail(s))

\* text.split(/\n{2,}/)
RECURSIVE SplitBlankLines(_, _, _)
SplitBlankLines(s, cur, acc) ==
  IF s = <<>> THEN Append(acc, cur)
  ELSE LET n == RunLen(s, "\n")
       IN  IF n >= 2 THEN SplitBlankLines(Drop(s, n), <<>>, Append(acc, cur))
           ELSE SplitBlankLines(Tail(s), Append(cur, Head(s)), acc)

\* what new DOMParser().parseFromString(html, "text/html").body holds, in
\* document order: text decoded, adjacent text merged, no empty text
RECURSIVE MergeText(_)
MergeText(h) ==
  IF h = <<>> THEN <<>>
  ELSE IF Head(h).k = "text"
       THEN IF Head(h).s = <<>> THEN MergeText(Tail(h))
            ELSE IF Len(h) > 1 /\ h[2].k = "text"
                 THEN MergeText(<<Txt(Head(h).s \o h[2].s)>> \o Drop(h, 2))
                 ELSE <<Head(h)>> \o MergeText(Tail(h))
       ELSE <<Head(h)>> \o MergeText(Tail(h))

DecodeTokens(h) ==
  [i \in 1..Len(h) |-> IF h[i].k = "text" THEN Txt(DecodeText(h[i].s)) ELSE h[i]]

\* a document given as its body's content, with no <body> tag of its own:
\* white space before the first content of the body is dropped
ParseFragment(h) ==
  LET m == MergeText(DecodeTokens(h))
  IN  IF m # <<>> /\ Head(m).k = "text"
      THEN MergeText(<<Txt(TrimStart(Head(m).s))>> \o Tail(m))
      ELSE m

\* a document with <body> ... </body>: everything after <body> is content
ParseBody(h) == MergeText(DecodeTokens(h))

\* body.innerHTML: the serialization of the DOM
SerializeSymbol(c) ==
  CASE c = "&" -> "&amp;"
    [] c = "<" -> "&lt;"
    [] c = ">" -> "&gt;"
    [] OTHER -> c
InnerHTML(dom) ==
  [i \in 1..Len(dom) |->
     IF dom[i].k = "text"
     THEN Txt([j \in 1..Len(dom[i].s) |-> SerializeSymbol(dom[i].s[j])])
     ELSE dom[i]]

NonContentTags == {"script", "style", "nav", "header", "footer"}
BlockTags == {"p", "div", "section", "article", "h1", "h2", "h3", "h4", "h5",
              "h6", "li", "ul", "ol", "table", "figure", "blockquote"}

\* root.querySelectorAll("script, style, nav, header, footer").forEach(remove)
RECURSIVE RemoveNonContent(_, _)
RemoveNonContent(dom, depth) ==
  IF dom = <<>> THEN <<>>
  ELSE LET t == Head(dom)
           opens == t.k = "open" /\ t.tag \in NonContentTags
           closes == t.k = "close" /\ t.tag \in NonContentTags
       IN  IF opens THEN RemoveNonContent(Tail(dom), depth + 1)
           ELSE IF closes THEN RemoveNonContent(Tail(dom), depth - 1)
           ELSE IF depth > 0 THEN RemoveNonContent(Tail(dom), depth)
           ELSE <<t>> \o RemoveNonContent(Tail(dom), depth)

\* root.querySelectorAll("br").forEach((br) => (br.outerHTML = "\n")): a text
\* node of its own, not merged with its neighbours
ReplaceBr(dom) ==
  [i \in 1..Len(dom) |->
     IF dom[i].k = "void" /\ dom[i].tag = "br" THEN Txt(<<"\n">>) ELSE dom[i]]

\* one step of the TreeWalker loop: what the node adds to `text`
WalkNode(t) ==
  IF t.k = "text" THEN Trim(CollapseWs(t.s)) \o <<" ">>
  ELSE IF t.k = "open" /\ t.tag \in BlockTags THEN <<"\n">>
  ELSE <<>>

RECURSIVE Walk(_)
Walk(dom) == IF dom = <<>> THEN <<>> ELSE WalkNode(Head(dom)) \o Walk(Tail(dom))

\* extractReadableText(root), root the body whose content is dom
extractReadableText(dom) ==
  Trim(CollapseNewlines(StripSpacesBeforeNewline(
    Walk(ReplaceBr(RemoveNonContent(dom, 0))))))

\* Array.prototype.join for sequences of sequences
RECURSIVE Join(_, _)
Join(parts, sep) ==
  IF Len(parts) = 0 THEN <<>>
  ELSE IF Len(parts) = 1 THEN parts[1]
  ELSE parts[1] \o sep \o Join(Tail(parts), sep)

\* parseTXTToModel: paragraphs wrapped in <p>, joined with "\n"
parseTXTToModel(txt) ==
  LET paras == SplitBlankLines(txt, <<>>, <<>>)
      html == Join([i \in 1..Len(paras) |->
                      <<Open("p"), Txt(escapeXml(paras[i])), Close("p")>>],
                   <<Txt(<<"\n">>)>>)
  IN  [title |-> Undefined, author |-> Undefined,
       chapters |-> << [html |-> html] >>, images |-> NoImages]

\* modelToText: each chapter parsed and extracted, joined with "\n\n"
modelToText(m) ==
  Join([i \in 1..Len(m.chapters) |->
          extractReadableText(ParseFragment(m.chapters[i].html))],
       <<"\n", "\n">>)

\* the attribute the expression /<img[^>]+src=["']([^"']+)["'][^>]*>/ captures:
\* the last src attribute with a value, 0 when the tag has none
SrcAttr(attrs) ==
  LET S == {i \in 1..Len(attrs) : attrs[i][1] = "src" /\ attrs[i][2] # <<>>}
  IN  IF S = {} THEN 0 ELSE CHOOSE i \in S : \A j \in S : j <= i

\* src.split("/").pop() || src, as a one-segment name
IdOf(src) == src[Len(src)]

\* data:<mime>;base64,<bytes> of an image
DataURI(img) == <<"data:", img.mime, img.id>>

\* _m.replace(src, dataURIs[id] || src): the first attribute value, in the
\* order of the tag, that holds the text of src is the one rewritten
RewriteImg(t, imgs) ==
  LET i == SrcAttr(t.attrs)
  IN  IF i = 0 THEN t
      ELSE LET src == t.attrs[i][2]
               id == IdOf(src)
               first == CHOOSE j \in 1..Len(t.attrs) :
                          /\ t.attrs[j][2] = src
                          /\ \A l \in 1..(j - 1) : t.attrs[l][2] # src
           IN  IF id \in DOMAIN imgs
               THEN Img([t.attrs EXCEPT ![first] = <<t.attrs[first][1], DataURI(imgs[id])>>])
               ELSE t

InlineImages(h, imgs) ==
  [i \in 1..Len(h) |->
     IF h[i].k = "void" /\ h[i].tag = "img" THEN RewriteImg(h[i], imgs) ELSE h[i]]

\* "\n<hr/>\n"
ChapterSeparator == <<Txt(<<"\n">>), Void("hr"), Txt(<<"\n">>)>>

\* modelToSingleHTML: the document, as its <title> and what follows <body>
modelToSingleHTML(m) ==
  LET body == Join([i \in 1..Len(m.chapters) |->
                      InlineImages(m.chapters[i].html, m.images)],
                   ChapterSeparator)
  IN  [title |-> escapeXml(IF m.title = Undefined THEN <<"Export">> ELSE m.title),
       body |-> <<Txt(<<"\n">>)>> \o body \o <<Txt(<<"\n">>), Close("body"),
                 Txt(<<"\n">>), Close("html")>>]

\* the content of doc.body: white space after </body> is added to the body
BodyContent(h) == SelectSeq(h, LAMBDA t : ~(t.k = "close" /\ t.tag \in {"body", "html"}))

\* parseHTMLToModel
parseHTMLToModel(doc) ==
  [title |-> DecodeText(doc.title), author |-> Undefined,
   chapters |-> << [html |-> InnerHTML(ParseBody(BodyContent(doc.body)))] >>,
   images |-> NoImages]

(***************************************************************************)
(* The text routes: a .txt file parsed (parseTXTToModel) or a model given, *)
(* exported as text (modelToText), exported as one HTML file               *)
(* (modelToSingleHTML), that file parsed (parseHTMLToModel) and exported   *)
(* as text again.                                                          *)
(***************************************************************************)
TxtAlphabet == {"A", "<", " ", "\n"}

\* "Hello world.\n\nSecond paragraph."
HelloWorld == <<"Hello", " ", "world.", "\n", "\n", "Second", " ", "paragraph.">>

TxtInputs == BSeq(TxtAlphabet, MaxTxtLen) \cup {HelloWorld}

\* the chapter html the given models are made of
ChapterPool ==
  { <<Open("p"), Txt(<<"A">>), Close("p")>>,
    <<Txt(<<"A", " ", "B">>)>>,
    <<Open("div"), Open("p"), Txt(<<"B">>), Close("p"), Close("div")>>,
    <<Open("p"), Txt(<<"A">>), Void("br"), Txt(<<"B">>), Close("p"),
      Img(<< <<"src", <<"images", "a.png">>>> >>), Txt(<<"\n">>)>>,
    <<>>,
    <<Img(<< <<"alt", <<"a.png">>>>, <<"src", <<"a.png">>>> >>)>>,
    <<Open("h1"), Txt(<<"&lt;">>), Close("h1"), Open("script"), Txt(<<"B">>),
      Close("script"), Open("p"), Txt(<<"A", "\n", "B">>), Close("p")>> }

ModelImages == [id \in {"a.png"} |-> [id |-> id, mime |-> "image/png", data |-> "png-bytes"]]

TextModels ==
  {[title |-> t, author |-> Undefined, chapters |-> [i \in 1..Len(cs) |-> [html |-> cs[i]]],
    images |-> im] :
     t \in {Undefined, <<"T">>}, cs \in BSeq(ChapterPool, MaxChapters),
     im \in {NoImages, ModelImages}}

NoDocument == [title |-> <<>>, body |-> <<>>]

TextInit ==
  /\ \/ tsrc = "txt" /\ txtFile \in TxtInputs /\ tbook = NoModel /\ tpc = "file"
     \/ tsrc = "model" /\ txtFile = <<>> /\ tbook \in TextModels /\ tpc = "model"
  /\ tplain = <<>>
  /\ tsingle = NoDocument
  /\ tbook2 = NoModel
  /\ tplain2 = <<>>

TextIdle ==
  /\ tsrc = "idle"
  /\ txtFile = <<>>
  /\ tbook = NoModel
  /\ tpc = "idle"
  /\ tplain = <<>>
  /\ tsingle = NoDocument
  /\ tbook2 = NoModel
  /\ tplain2 = <<>>

\* parseTXTToModel(buf)
TextParseTXT ==
  /\ tpc = "file"
  /\ tbook' = parseTXTToModel(txtFile)
  /\ tpc' = "model"
  /\ UNCHANGED <<tsrc, txtFile, tplain, tsingle, tbook2, tplain2>>
  /\ UNCHANGED textOthers

\* exportModel(model, "txt")
TextExportText ==
  /\ tpc = "model"
  /\ tplain' = modelToText(tbook)
  /\ tpc' = "text"
  /\ UNCHANGED <<tsrc, txtFile, tbook, tsingle, tbook2, tplain2>>
  /\ UNCHANGED textOthers

\* exportModel(model, "html")
TextExportSingleHTML ==
  /\ tpc = "text"
  /\ tsingle' = modelToSingleHTML(tbook)
  /\ tpc' = "html"
  /\ UNCHANGED <<tsrc, txtFile, tbook, tplain, tbook2, tplain2>>
  /\ UNCHANGED textOthers

\* parseHTMLToModel of the exported file
TextParseHTML ==
  /\ tpc = "html"
  /\ tbook2' = parseHTMLToModel(tsingle)
  /\ tpc' = "model2"
  /\ UNCHANGED <<tsrc, txtFile, tbook, tplain, tsingle, tplain2>>
  /\ UNCHANGED textOthers

\* exportModel(model2, "txt")
TextExportText2 ==
  /\ tpc = "model2"
  /\ tplain2' = modelToText(tbook2)
  /\ tpc' = "done"
  /\ UNCHANGED <<tsrc, txtFile, tbook, tplain, tsingle, tbook2>>
  /\ UNCHANGED textOthers

TextNext ==
  \/ TextParseTXT
  \/ TextExportText
  \/ TextExportSingleHTML
  \/ TextParseHTML
  \/ TextExportText2

(* ---- the claims about the text routes ---- *)
\* the paragraphs of a text that hold more than white space
Paragraphs(s) == SelectSeq(SplitBlankLines(s, <<>>, <<>>), LAMBDA p : Trim(p) # <<>>)

HasBlankLine(s) == \E i \in 1..(Len(s) - 1) : s[i] = "\n" /\ s[i + 1] = "\n"

TextExported == tpc \in {"text", "html", "model2", "done"}

(* C5: the text "Hello world.\n\nSecond paragraph.", parsed with          *)
(* parseTXTToModel and exported with modelToText, comes back unchanged up  *)
(* to trailing white space; and whenever the input has two paragraphs      *)
(* separated by a blank line, the output has a blank line.                 *)
C5_TxtRoundTrip ==
  (tsrc = "txt" /\ TextExported) =>
    /\ txtFile = HelloWorld => TrimEnd(tplain) = TrimEnd(txtFile)
    /\ Len(Paragraphs(txtFile)) >= 2 => HasBlankLine(tplain)

(* C6: modelToText of a model equals modelToText of the model parsed back  *)
(* from its single-HTML export, whatever the number of chapters.           *)
C6_TextSurvivesHtmlExport ==
  tpc = "done" => tplain2 = tplain

\* the <img> tags of a body
ImgsOf(h) == SelectSeq(h, LAMBDA t : t.k = "void" /\ t.tag = "img")

\* the values of the src attributes of a tag
SrcValues(t) == {t.attrs[i][2] : i \in {j \in 1..Len(t.attrs) : t.attrs[j][1] = "src"}}

IsDataURI(v) == v # <<>> /\ v[1] = "data:"

(* C13: in the output of modelToSingleHTML every <img> has a data: URI as  *)
(* its src, whatever the model and whatever the attributes of the tag.     *)
C13_NoExternalImage ==
  tpc \in {"html", "model2", "done"} =>
    \A i \in 1..Len(ImgsOf(tsingle.body)) :
      \A v \in SrcValues(ImgsOf(tsingle.body)[i]) : IsDataURI(v)

(***************************************************************************)
(* parseEPUBToModel(buf, onProgress) and modelToEPUB(model)                *)
(*                                                                         *)
(* A path is the sequence of its "/"-separated segments. An archive is     *)
(*   container : META-INF/container.xml, "absent" | "empty" | "xml", with  *)
(*               the full-path of its first rootfile (<<>> when it has     *)
(*               none);                                                    *)
(*   opf       : the entry at that path, "absent" | "empty" | "xml", with  *)
(*               its title, author, manifest items and itemref idrefs;     *)
(*   docs      : path -> content of the markup entries;                    *)
(*   blobs     : path -> bytes of the binary entries.                      *)
(***************************************************************************)
MaxSpine == 3

ContainerPath == <<"META-INF", "container.xml">>

ErrMissingContainer == "Invalid EPUB: missing container.xml"
ErrNoRootfile == "Invalid EPUB: cannot find OPF package."
ErrMissingOpf == "Invalid EPUB: missing OPF package."
ErrEmptySpine == "Invalid EPUB: empty spine."

\* p.split("/").slice(0, -1)
DirOf(p) == IF p = <<>> THEN <<>> ELSE SubSeq(p, 1, Len(p) - 1)

\* const resPath = (p) => (baseDir ? `${baseDir}/${p}` : p)
resPath(root, p) == DirOf(root) \o p

\* joinHref(baseHref, rel)
joinHref(baseHref, rel) == DirOf(baseHref) \o rel

\* normalize(p): "" and "." are dropped, ".." removes the segment before it
\* the mutant of NormalizeFrom: ".." is dropped like "."
RECURSIVE NormalizeFromNoPop(_, _)
NormalizeFromNoPop(p, parts) ==
  IF p = <<>> THEN parts
  ELSE IF Head(p) \in {"", ".", ".."} THEN NormalizeFromNoPop(Tail(p), parts)
  ELSE NormalizeFromNoPop(Tail(p), Append(parts, Head(p)))

RECURSIVE NormalizeFrom(_, _)
NormalizeFrom(p, parts) ==
  IF p = <<>> THEN parts
  ELSE LET seg == Head(p)
       IN  IF seg = "" \/ seg = "." THEN NormalizeFrom(Tail(p), parts)
           ELSE IF seg = ".." THEN NormalizeFrom(Tail(p), DirOf(parts))
           ELSE NormalizeFrom(Tail(p), Append(parts, seg))
normalize(p) == NormalizeFrom(p, <<>>)

\* containerDoc.querySelector("rootfile")?.getAttribute("full-path") || ""
RootfileOf(c) == IF c.state = "xml" THEN c.rootfile ELSE <<>>

\* the mutant of ContainerMissing: only an absent entry counts
ContainerMissingOnlyAbsent(c) == c.state = "absent"

\* if (!containerXml): no entry, or an entry whose text is ""
ContainerMissing(c) == c.state \in {"absent", "empty"}

\* if (!opfText)
OpfMissing(o) == o.state \in {"absent", "empty"}

\* manifest[id] = { href, type } for each item: a later item with the same
\* id replaces the value and keeps the position of the first
BuildManifest(items) ==
  LET firsts == {i \in 1..Len(items) : \A j \in 1..(i - 1) : items[j].id # items[i].id}
      lastOf(i) == CHOOSE j \in 1..Len(items) :
                     /\ items[j].id = items[i].id
                     /\ \A l \in (j + 1)..Len(items) : items[l].id # items[i].id
      keep == SelectSeq([i \in 1..Len(items) |-> i], LAMBDA i : i \in firsts)
  IN  [n \in 1..Len(keep) |-> items[lastOf(keep[n])]]

HasItem(mf, id) == \E i \in 1..Len(mf) : mf[i].id = id
ItemOf(mf, id) == mf[CHOOSE i \in 1..Len(mf) : mf[i].id = id]

\* if (idref) spineIds.push(idref)
SpineIdsOf(itemrefs) == SelectSeq(itemrefs, LAMBDA r : r # "")

\* the mutant of SpineEmpty: the check is absent
SpineEmptyNever(ids) == FALSE

\* if (!spineIds.length)
SpineEmpty(ids) == Len(ids) = 0

\* the mutant of IsHtmlType: only the XHTML media-type passes
IsHtmlTypeXhtmlOnly(type) == type = "application/xhtml+xml"

\* /html|xhtml/i.test(it.type), on the media types in use
IsHtmlType(type) == type \in {"application/xhtml+xml", "text/html", "TEXT/HTML"}

\* if (!it || !/html|xhtml/i.test(it.type)) continue; if (!docFile) continue
SkipsEntry(z, root, mf, id) ==
  IF ~HasItem(mf, id) THEN TRUE
  ELSE IF ~IsHtmlType(ItemOf(mf, id).type) THEN TRUE
  ELSE resPath(root, ItemOf(mf, id).href) \notin DOMAIN z.docs

\* doc.querySelectorAll("img[src]"), each src trimmed and resolved
RECURSIVE ImgHrefsOf(_, _)
ImgHrefsOf(dom, href) ==
  IF dom = <<>> THEN <<>>
  ELSE LET t == Head(dom)
           S == IF t.k = "void" /\ t.tag = "img"
                THEN {i \in 1..Len(t.attrs) : t.attrs[i][1] = "src"} ELSE {}
           src == IF S = {} THEN <<>> ELSE t.attrs[CHOOSE i \in S : \A j \in S : i <= j][2]
       IN  (IF src = <<>> THEN <<>> ELSE <<normalize(joinHref(href, src))>>)
           \o ImgHrefsOf(Tail(dom), href)

\* Set.prototype.add on the insertion-ordered set
RECURSIVE AddAll(_, _)
AddAll(set, xs) ==
  IF xs = <<>> THEN set
  ELSE AddAll(IF \E i \in 1..Len(set) : set[i] = Head(xs) THEN set
              ELSE Append(set, Head(xs)), Tail(xs))

\* src.split("/").pop() || src
BasenameOf(p) == IF p = <<>> THEN "" ELSE p[Len(p)]

\* images[id] = { id, mime, data }
PutImage(imgs, id, img) ==
  [k \in DOMAIN imgs \cup {id} |-> IF k = id THEN img ELSE imgs[k]]

\* a fraction handed to onProgress
Fraction(n, d) == <<n, d>>

(* ---- modelToEPUB ---- *)

\* String(i).padStart(4, "0") inside `chap-....xhtml`
ChapterName(i) == "chap-" \o (IF i < 10 THEN "000" ELSE "00") \o ToString(i) \o ".xhtml"
ChapterId(i) == "chap" \o ToString(i)

\* the mutant of RelinkImg: the tag is left as it is
RelinkImgKeepsSrc(t) == t

\* the replace over /<img([^>]+?)src=["']([^"']+)["']([^>]*)>/: the first src
\* with a value becomes media/<basename>
RelinkImg(t) ==
  LET S == {i \in 1..Len(t.attrs) : t.attrs[i][1] = "src" /\ t.attrs[i][2] # <<>>}
  IN  IF S = {} THEN t
      ELSE LET i == CHOOSE x \in S : \A j \in S : x <= j
           IN  Img([t.attrs EXCEPT ![i] = <<"src", <<"media", BasenameOf(t.attrs[i][2])>>>>])

Relink(h) ==
  [i \in 1..Len(h) |-> IF h[i].k = "void" /\ h[i].tag = "img" THEN RelinkImg(h[i]) ELSE h[i]]

\* Object.values(model.images), in the order of the keys
RECURSIVE SetToSeq(_)
SetToSeq(S) ==
  IF S = {} THEN <<>>
  ELSE LET x == CHOOSE e \in S : TRUE IN <<x>> \o SetToSeq(S \ {x})

OrDefault(v, d) == IF v = Undefined THEN d ELSE v

\* an entry written with zip.file(path, content, { compression })
Entry(path, compression) == [path |-> path, compression |-> compression]

modelToEPUB(m) ==
  LET ids == SetToSeq(DOMAIN m.images)
      n == Len(m.chapters)
      chapterItems == [i \in 1..n |->
        [id |-> ChapterId(i), href |-> <<ChapterName(i)>>, type |-> "application/xhtml+xml"]]
      imageItems == [i \in 1..Len(ids) |->
        [id |-> ids[i], href |-> <<"media", ids[i]>>, type |-> m.images[ids[i]].mime]]
      ncxItem == [id |-> "ncx", href |-> <<"toc.ncx">>, type |-> "application/x-dtbncx+xml"]
      docPaths == {<<"OEBPS", ChapterName(i)>> : i \in 1..n}
      indexOf(p) == CHOOSE i \in 1..n : p = <<"OEBPS", ChapterName(i)>>
  IN  [container |-> [state |-> "xml", rootfile |-> <<"OEBPS", "content.opf">>],
       opf |-> [state |-> "xml",
                title |-> escapeXml(OrDefault(m.title, <<"Untitled">>)),
                author |-> escapeXml(OrDefault(m.author, <<"Unknown">>)),
                items |-> chapterItems \o imageItems \o <<ncxItem>>,
                itemrefs |-> [i \in 1..n |-> ChapterId(i)]],
       docs |-> [p \in docPaths |->
                   Relink(m.chapters[indexOf(p)].html)
                   \o <<Close("body"), Txt(<<"\n">>), Close("html")>>],
       blobs |-> [p \in {<<"OEBPS", "media", id>> : id \in DOMAIN m.images} |->
                    m.images[p[3]].data],
       ncx |-> [i \in 1..n |->
                  [id |-> "p" \o ToString(i), playOrder |-> i,
                   label |-> <<"Chapter", " ", ToString(i)>>, src |-> <<ChapterName(i)>>]],
       entries |-> <<Entry(<<"mimetype">>, "STORE"), Entry(ContainerPath, "DEFLATE")>>
                   \o [i \in 1..Len(ids) |-> Entry(<<"OEBPS", "media", ids[i]>>, "DEFLATE")]
                   \o [i \in 1..n |-> Entry(<<"OEBPS", ChapterName(i)>>, "DEFLATE")]
                   \o <<Entry(<<"OEBPS", "content.opf">>, "DEFLATE"),
                         Entry(<<"OEBPS", "toc.ncx">>, "DEFLATE")>>]

(* ---- the archives parsed ---- *)
SpineIdPool == {"c1", "c2", "c3", "img1", "nope", ""}

BodyTail == <<Close("body"), Txt(<<"\n">>), Close("html")>>

\* chapter one: a paragraph and an image beside it
DocOne ==
  <<Txt(<<"\n">>), Open("p"), Txt(<<"A", " ", "&lt;">>), Close("p"),
    Img(<< <<"alt", <<"a">>>>, <<"src", <<"images", "a.png">>>> >>), Txt(<<"\n">>)>>
  \o BodyTail

\* chapter two, one directory down: nested blocks, an image reached through
\* "..", one that is not in the archive, one beside the chapter that has the
\* file name of the first
DocTwo ==
  <<Open("div"), Open("p"), Txt(<<"B">>), Void("br"), Txt(<<"C">>), Close("p"), Close("div"),
    Img(<< <<"src", <<"..", "images", "a.png">>>> >>),
    Img(<< <<"src", <<"images", "none.png">>>> >>),
    Img(<< <<"src", <<"images", "a.png">>>> >>)>>
  \o BodyTail

ManifestItems ==
  << [id |-> "c1", href |-> <<"ch1.xhtml">>, type |-> "application/xhtml+xml"],
     [id |-> "c2", href |-> <<"text", "ch2.html">>, type |-> "text/html"],
     [id |-> "c3", href |-> <<"gone.xhtml">>, type |-> "application/xhtml+xml"],
     [id |-> "img1", href |-> <<"images", "a.png">>, type |-> "image/png"],
     [id |-> "img2", href |-> <<"text", "images", "none.png">>, type |-> "image/png"],
     [id |-> "img3", href |-> <<"text", "images", "a.png">>, type |-> "image/jpeg"] >>

Rootfiles == {<<"content.opf">>, <<"OEBPS", "content.opf">>}

ArchiveWith(cstate, root, ostate, itemrefs) ==
  [container |-> [state |-> cstate, rootfile |-> root],
   opf |-> [state |-> ostate,
            title |-> IF Len(root) = 1 THEN Undefined ELSE <<"T">>,
            author |-> Undefined,
            items |-> ManifestItems,
            itemrefs |-> itemrefs],
   docs |-> [p \in {resPath(root, <<"ch1.xhtml">>), resPath(root, <<"text", "ch2.html">>)} |->
               IF p[Len(p)] = "ch1.xhtml" THEN DocOne ELSE DocTwo],
   blobs |-> [p \in {resPath(root, <<"images", "a.png">>),
                      resPath(root, <<"text", "images", "a.png">>)} |->
               IF Len(p) - Len(DirOf(root)) = 2 THEN "png-bytes" ELSE "jpg-bytes"],
   ncx |-> <<>>,
   entries |-> <<Entry(<<"mimetype">>, "STORE")>>
               \o (IF cstate = "absent" THEN <<>> ELSE <<Entry(ContainerPath, "DEFLATE")>>)
               \o (IF ostate = "absent" \/ root = <<>> THEN <<>> ELSE <<Entry(root, "DEFLATE")>>)
               \o <<Entry(resPath(root, <<"ch1.xhtml">>), "DEFLATE"),
                     Entry(resPath(root, <<"text", "ch2.html">>), "DEFLATE"),
                     Entry(resPath(root, <<"images", "a.png">>), "DEFLATE"),
                     Entry(resPath(root, <<"text", "images", "a.png">>), "DEFLATE")>>]

\* a spine of more than twenty entries: a document, then ids the manifest
\* does not have
LongSpineLen == 21
LongSpine == [i \in 1..LongSpineLen |-> IF i = 1 THEN "c1" ELSE "nope"]

\* every spine over the pool in a well-formed archive, and every way the
\* container and the package can be missing around a fixed spine
EpubArchives ==
  {ArchiveWith("xml", r, "xml", s) : r \in Rootfiles, s \in BSeq(SpineIdPool, MaxSpine)}
  \cup {ArchiveWith("xml", r, "xml", LongSpine) : r \in Rootfiles}
  \cup {ArchiveWith(c, r, o, s) :
          c \in {"absent", "empty", "xml"},
          r \in Rootfiles \cup {<<>>},
          o \in {"absent", "empty", "xml"},
          s \in {<<>>, <<"c1">>}}

EpubInit ==
  /\ zip \in EpubArchives
  /\ round = 1
  /\ epc = "load"
  /\ reads = <<>>
  /\ progress = <<>>
  /\ eerr = ""
  /\ rootfile = <<>>
  /\ meta = [title |-> Undefined, author |-> Undefined]
  /\ manifest = <<>>
  /\ spineIds = <<>>
  /\ si = 0
  /\ chapters = <<>>
  /\ imageHrefs = <<>>
  /\ images = NoImages
  /\ book = NoModel
  /\ book1 = NoModel

\* no archive yet
NoArchive ==
  [container |-> [state |-> "absent", rootfile |-> <<>>],
   opf |-> [state |-> "absent", title |-> Undefined, author |-> Undefined,
            items |-> <<>>, itemrefs |-> <<>>],
   docs |-> <<>>, blobs |-> <<>>, ncx |-> <<>>, entries |-> <<>>]

EpubIdle ==
  /\ zip = NoArchive
  /\ round = 0
  /\ epc = "idle"
  /\ reads = <<>>
  /\ progress = <<>>
  /\ eerr = ""
  /\ rootfile = <<>>
  /\ meta = [title |-> Undefined, author |-> Undefined]
  /\ manifest = <<>>
  /\ spineIds = <<>>
  /\ si = 0
  /\ chapters = <<>>
  /\ imageHrefs = <<>>
  /\ images = NoImages
  /\ book = NoModel
  /\ book1 = NoModel

EpubFail(msg) ==
  /\ epc' = "failed"
  /\ eerr' = msg

\* const zip = await JSZip.loadAsync(buf); onProgress?.(0.05)
EpubLoad ==
  /\ epc = "load"
  /\ epc' = "container"
  /\ progress' = Append(progress, Fraction(5, 100))
  /\ UNCHANGED <<zip, round, reads, eerr, rootfile, meta, manifest, spineIds, si,
                 chapters, imageHrefs, images, book, book1>>
  /\ UNCHANGED epubOthers

\* container.xml is read and the rootfile taken from it
EpubContainer ==
  /\ epc = "container"
  /\ reads' = IF zip.container.state = "absent" THEN reads ELSE Append(reads, ContainerPath)
  /\ IF ContainerMissing(zip.container)
     THEN EpubFail(ErrMissingContainer) /\ UNCHANGED rootfile
     ELSE IF RootfileOf(zip.container) = <<>>
          THEN EpubFail(ErrNoRootfile) /\ UNCHANGED rootfile
          ELSE /\ rootfile' = RootfileOf(zip.container)
               /\ epc' = "opf"
               /\ UNCHANGED eerr
  /\ UNCHANGED <<zip, round, progress, meta, manifest, spineIds, si, chapters,
                 imageHrefs, images, book, book1>>
  /\ UNCHANGED epubOthers

\* the package is read: title, author, manifest, spine; the spine is checked
EpubOpf ==
  /\ epc = "opf"
  /\ reads' = IF zip.opf.state = "absent" THEN reads ELSE Append(reads, rootfile)
  /\ IF OpfMissing(zip.opf)
     THEN EpubFail(ErrMissingOpf) /\ UNCHANGED <<meta, manifest, spineIds, si>>
     ELSE /\ meta' = [title |-> DecodeText(zip.opf.title),
                       author |-> DecodeText(zip.opf.author)]
          /\ manifest' = BuildManifest(zip.opf.items)
          /\ spineIds' = SpineIdsOf(zip.opf.itemrefs)
          /\ IF SpineEmpty(SpineIdsOf(zip.opf.itemrefs))
             THEN EpubFail(ErrEmptySpine) /\ UNCHANGED si
             ELSE epc' = "chapters" /\ si' = 1 /\ UNCHANGED eerr
  /\ UNCHANGED <<zip, round, progress, rootfile, chapters, imageHrefs, images, book, book1>>
  /\ UNCHANGED epubOthers

\* one pass of the spine loop that ends in `continue`
EpubSkipEntry ==
  /\ epc = "chapters"
  /\ si <= Len(spineIds)
  /\ SkipsEntry(zip, rootfile, manifest, spineIds[si])
  /\ si' = si + 1
  /\ UNCHANGED <<zip, round, epc, reads, progress, eerr, rootfile, meta, manifest,
                 spineIds, chapters, imageHrefs, images, book, book1>>
  /\ UNCHANGED epubOthers

\* one pass of the spine loop that stores a chapter
EpubChapter ==
  /\ epc = "chapters"
  /\ si <= Len(spineIds)
  /\ ~SkipsEntry(zip, rootfile, manifest, spineIds[si])
  /\ LET it == ItemOf(manifest, spineIds[si])
         path == resPath(rootfile, it.href)
         dom == ParseBody(BodyContent(zip.docs[path]))
     IN  /\ reads' = Append(reads, path)
         /\ imageHrefs' = AddAll(imageHrefs, ImgHrefsOf(dom, it.href))
         /\ chapters' = Append(chapters, [html |-> InnerHTML(dom)])
         /\ progress' = Append(progress, Fraction(si, Len(spineIds)))
  /\ si' = si + 1
  /\ UNCHANGED <<zip, round, epc, eerr, rootfile, meta, manifest, spineIds, images,
                 book, book1>>
  /\ UNCHANGED epubOthers

\* the spine loop ends
EpubChaptersEnd ==
  /\ epc = "chapters"
  /\ si > Len(spineIds)
  /\ epc' = "images"
  /\ UNCHANGED <<zip, round, reads, progress, eerr, rootfile, meta, manifest, spineIds,
                 si, chapters, imageHrefs, images, book, book1>>
  /\ UNCHANGED epubOthers

\* one pass of `for (const href of imageHrefs)`
EpubImage ==
  /\ epc = "images"
  /\ imageHrefs # <<>>
  /\ LET href == Head(imageHrefs)
         M == {i \in 1..Len(manifest) : normalize(manifest[i].href) = href}
         mf == manifest[CHOOSE i \in M : \A j \in M : i <= j]
         path == resPath(rootfile, mf.href)
         id == BasenameOf(mf.href)
     IN  IF M = {} \/ path \notin DOMAIN zip.blobs
         THEN UNCHANGED <<reads, images>>
         ELSE /\ reads' = Append(reads, path)
              /\ images' = PutImage(images, id,
                             [id |-> id, mime |-> mf.type, data |-> zip.blobs[path]])
  /\ imageHrefs' = Tail(imageHrefs)
  /\ UNCHANGED <<zip, round, epc, progress, eerr, rootfile, meta, manifest, spineIds,
                 si, chapters, book, book1>>
  /\ UNCHANGED epubOthers

\* return { title, author, chapters, images }
EpubReturn ==
  /\ epc = "images"
  /\ imageHrefs = <<>>
  /\ epc' = "returned"
  /\ book' = [title |-> meta.title, author |-> meta.author, chapters |-> chapters,
              images |-> images]
  /\ UNCHANGED <<zip, round, reads, progress, eerr, rootfile, meta, manifest, spineIds,
                 si, chapters, imageHrefs, images, book1>>
  /\ UNCHANGED epubOthers

\* the returned model is exported with modelToEPUB and the result parsed
EpubExport ==
  /\ epc = "returned"
  /\ round = 1
  /\ zip' = modelToEPUB(book)
  /\ book1' = book
  /\ round' = 2
  /\ epc' = "load"
  /\ reads' = <<>>
  /\ progress' = <<>>
  /\ rootfile' = <<>>
  /\ meta' = [title |-> Undefined, author |-> Undefined]
  /\ manifest' = <<>>
  /\ spineIds' = <<>>
  /\ si' = 0
  /\ chapters' = <<>>
  /\ images' = NoImages
  /\ book' = NoModel
  /\ UNCHANGED <<eerr, imageHrefs>>
  /\ UNCHANGED epubOthers

EpubNext ==
  \/ EpubLoad
  \/ EpubContainer
  \/ EpubOpf
  \/ EpubSkipEntry
  \/ EpubChapter
  \/ EpubChaptersEnd
  \/ EpubImage
  \/ EpubReturn
  \/ EpubExport

(* ---- the claims about the EPUB parser ---- *)
PackageReadable == ~ContainerMissing(zip.container)
                   /\ RootfileOf(zip.container) # <<>>
                   /\ ~OpfMissing(zip.opf)

MissingPackageErrors == {ErrNoRootfile, ErrMissingOpf}

NothingReturned == epc = "failed" /\ book = NoModel

\* the entries a parse may read before it examines the spine
PrerequisiteReads == <<ContainerPath, RootfileOf(zip.container)>>

(* C2: an archive whose package has no itemref with an idref makes the     *)
(* parse fail with "Invalid EPUB: empty spine." once the package is read,  *)
(* with only container.xml and the package read, no chapter and no image   *)
(* stored, and no model returned.                                          *)
C2_EmptySpineFails ==
  (PackageReadable /\ SpineIdsOf(zip.opf.itemrefs) = <<>>
   /\ epc \notin {"load", "container", "opf"}) =>
    /\ NothingReturned
    /\ eerr = ErrEmptySpine
    /\ reads = PrerequisiteReads
    /\ chapters = <<>>
    /\ images = NoImages

C2_Witness ==
  /\ round = 1
  /\ epc = "failed"
  /\ eerr = ErrEmptySpine
  /\ zip.opf.itemrefs = <<>>
  /\ DOMAIN zip.docs # {}
  /\ Len(zip.opf.items) > 0

\* the error each failing archive gets when an empty container.xml counts
\* as missing, as the code has it
OrderedError(containerGone) ==
  IF containerGone THEN eerr = ErrMissingContainer
  ELSE IF RootfileOf(zip.container) = <<>> THEN eerr = ErrNoRootfile
  ELSE IF OpfMissing(zip.opf) THEN eerr = ErrMissingOpf
  ELSE eerr = ErrEmptySpine

\* what has been read and kept agrees with the order of the checks
OrderOfChecks ==
  /\ IsPrefix(reads, PrerequisiteReads) \/ PackageReadable
  /\ Len(reads) >= 1 => reads[1] = ContainerPath
  /\ Len(reads) >= 2 => /\ ~ContainerMissing(zip.container)
                        /\ reads[2] = RootfileOf(zip.container)
  /\ (spineIds # <<>> \/ manifest # <<>> \/ chapters # <<>>) => PackageReadable
  /\ epc \in {"chapters", "images", "returned"} =>
       PackageReadable /\ SpineIdsOf(zip.opf.itemrefs) # <<>>

ChapterFiles == <<"chap-0001.xhtml", "chap-0002.xhtml", "chap-0003.xhtml", "chap-0004.xhtml">>
ChapterIds == <<"chap1", "chap2", "chap3", "chap4">>

PathsOf(es) == [i \in 1..Len(es) |-> es[i].path]

Count(s, x) == Cardinality({i \in 1..Len(s) : s[i] = x})

\* the items of the package that are chapters
ChapterItems(items) == SelectSeq(items, LAMBDA it : it.type = "application/xhtml+xml")

\* the first src of a tag that has a value, <<>> when there is none
FirstSrc(t) ==
  LET S == {i \in 1..Len(t.attrs) : t.attrs[i][1] = "src" /\ t.attrs[i][2] # <<>>}
  IN  IF S = {} THEN <<>> ELSE t.attrs[CHOOSE i \in S : \A j \in S : i <= j][2]

NamesDocument(z, id) ==
  \E i \in 1..Len(z.opf.items) :
     /\ z.opf.items[i].id = id
     /\ z.opf.items[i].type \in {"text/html", "application/xhtml+xml"}
     /\ resPath(z.container.rootfile, z.opf.items[i].href) \in DOMAIN z.docs

\* the body of the document a spine entry names
DocumentBody(z, id) ==
  LET i == CHOOSE k \in 1..Len(z.opf.items) : z.opf.items[k].id = id
  IN  InnerHTML(ParseBody(BodyContent(
        z.docs[resPath(z.container.rootfile, z.opf.items[i].href)])))

(* C20: the chapters parseEPUBToModel returns are exactly the spine entries *)
(* that have a manifest item with an HTML/XHTML media-type and an existing  *)
(* archive file, in spine order; the other entries are skipped without an   *)
(* error and without changing the order of the rest.                        *)
C20_ChaptersAreSpineDocuments ==
  LET kept == SelectSeq(zip.opf.itemrefs, LAMBDA id : NamesDocument(zip, id))
  IN  /\ epc = "returned" =>
           /\ eerr = ""
           /\ Len(book.chapters) = Len(kept)
           /\ \A i \in 1..Len(kept) : book.chapters[i].html = DocumentBody(zip, kept[i])
      /\ (/\ epc = "failed"
          /\ zip.container.state = "xml"
          /\ zip.container.rootfile # <<>>
          /\ zip.opf.state = "xml")
           => \A i \in 1..Len(zip.opf.itemrefs) : zip.opf.itemrefs[i] = ""

C20_Witness ==
  /\ round = 1
  /\ epc = "returned"
  /\ zip.opf.itemrefs = <<"c2", "c3", "c1">>
  /\ Len(book.chapters) = 2

\* the hrefs the <img src> of the stored chapters resolve to
RECURSIVE ReferencedHrefs(_, _)
ReferencedHrefs(z, ids) ==
  IF ids = <<>> THEN {}
  ELSE LET rest == ReferencedHrefs(z, Tail(ids))
       IN  IF ~NamesDocument(z, Head(ids)) THEN rest
           ELSE LET i == CHOOSE k \in 1..Len(z.opf.items) : z.opf.items[k].id = Head(ids)
                    href == z.opf.items[i].href
                    dom == ParseBody(BodyContent(z.docs[resPath(z.container.rootfile, href)]))
                    hs == ImgHrefsOf(dom, href)
                IN  {hs[j] : j \in 1..Len(hs)} \cup rest

\* the manifest items of z whose normalized href is h and whose file exists
ItemsAt(z, h) ==
  {i \in 1..Len(z.opf.items) :
     /\ normalize(z.opf.items[i].href) = h
     /\ resPath(z.container.rootfile, z.opf.items[i].href) \in DOMAIN z.blobs}

(* C21: after parseEPUBToModel, every <img src> of a stored chapter that   *)
(* resolves to a manifest item present in the archive has one entry in      *)
(* model.images under the basename of its href, holding the bytes of that   *)
(* item's file; references that do not resolve add no entry and no error.   *)
C21_ImagesAreTheReferencedFiles ==
  (round = 1 /\ epc = "returned") =>
    LET refs == ReferencedHrefs(zip, zip.opf.itemrefs)
        found == {h \in refs : ItemsAt(zip, h) # {}}
    IN  /\ eerr = ""
        /\ DOMAIN book.images = {BasenameOf(h) : h \in found}
        /\ \A h \in found : \A i \in ItemsAt(zip, h) :
              book.images[BasenameOf(h)].data =
                zip.blobs[resPath(zip.container.rootfile, zip.opf.items[i].href)]

\* a / b <= c / d for fractions with positive denominators
FractionLeq(p, q) == p[1] * q[2] <= q[1] * p[2]

(* C22: during one parseEPUBToModel call every value given to the progress *)
(* callback is a fraction in [0,1] and the values never decrease, for a     *)
(* spine of any length.                                                     *)
C22_ProgressNeverDecreases ==
  /\ \A i \in 1..Len(progress) :
        FractionLeq(<<0, 1>>, progress[i]) /\ FractionLeq(progress[i], <<1, 1>>)
  /\ \A i, j \in 1..Len(progress) : i < j => FractionLeq(progress[i], progress[j])

ReadableText(ch) == extractReadableText(ParseFragment(ch.html))

(* C4: when the first parse returns a model, the parse of the archive that *)
(* modelToEPUB writes for it returns a model too, with as many chapters,   *)
(* each with the readable text of the chapter at the same place.           *)
C4_EpubRoundTrip ==
  (round = 2 /\ epc \in {"failed", "returned"}) =>
    /\ epc = "returned"
    /\ Len(book.chapters) = Len(book1.chapters)
    /\ \A i \in 1..Len(book.chapters) :
         i <= Len(book1.chapters) =>
           ReadableText(book.chapters[i]) = ReadableText(book1.chapters[i])

(***************************************************************************)
(* normalize(p) as a function of a path string                             *)
(*                                                                         *)
(* A path string is a sequence of "/" marks and of segments, a segment     *)
(* being the text between two marks; p.split("/") gives "" where two marks *)
(* meet and at a mark that starts or ends the string.                      *)
(***************************************************************************)
MaxPathTokens == 5

SegmentNames == {"a", "b", ".", ".."}

\* no two segments side by side: they would be one segment
IsPathString(s) == \A i \in 1..(Len(s) - 1) : s[i] = "/" \/ s[i + 1] = "/"

PathStrings ==
  {s \in BSeq(SegmentNames \cup {"/"}, MaxPathTokens) : IsPathString(s)}
  \cup { <<"a", "/", "b", "/", "..", "/", "c">>,
         <<".", "/", "x", "/", ".", "/", "y">>,
         <<"..">> }

\* p.split("/")
RECURSIVE SplitSlash(_, _, _)
SplitSlash(s, cur, acc) ==
  IF s = <<>> THEN Append(acc, cur)
  ELSE IF Head(s) = "/" THEN SplitSlash(Tail(s), "", Append(acc, cur))
  ELSE SplitSlash(Tail(s), Head(s), acc)

\* parts.join("/")
RECURSIVE JoinSlash(_)
JoinSlash(parts) ==
  IF parts = <<>> THEN <<>>
  ELSE IF Len(parts) = 1 THEN parts
  ELSE <<Head(parts), "/">> \o JoinSlash(Tail(parts))

\* normalize(p) from string to string
NormalizeString(s) == JoinSlash(normalize(SplitSlash(s, "", <<>>)))

PathInit ==
  /\ npath \in PathStrings
  /\ nout = <<>>
  /\ nagain = <<>>
  /\ npc = "call"

PathIdle ==
  /\ npath = <<>>
  /\ nout = <<>>
  /\ nagain = <<>>
  /\ npc = "idle"

\* normalize(p)
PathNormalize ==
  /\ npc = "call"
  /\ nout' = NormalizeString(npath)
  /\ npc' = "once"
  /\ UNCHANGED <<npath, nagain>>
  /\ UNCHANGED pathOthers

\* normalize of the result
PathNormalizeAgain ==
  /\ npc = "once"
  /\ nagain' = NormalizeString(nout)
  /\ npc' = "twice"
  /\ UNCHANGED <<npath, nout>>
  /\ UNCHANGED pathOthers

PathNext ==
  \/ PathNormalize
  \/ PathNormalizeAgain

(* ---- the claim about normalize ---- *)
\* the segments of a path string, none for the empty string
SegmentsOf(s) == IF s = <<>> THEN <<>> ELSE SplitSlash(s, "", <<>>)

\* what is kept of the segments, read from the left with a stack
RECURSIVE Kept(_)
Kept(segs) ==
  IF segs = <<>> THEN <<>>
  ELSE LET before == Kept(SubSeq(segs, 1, Len(segs) - 1))
           seg == segs[Len(segs)]
       IN  IF seg \in {"", "."} THEN before
           ELSE IF seg = ".." THEN SubSeq(before, 1, Len(before) - 1)
           ELSE Append(before, seg)

(* C11: normalize splits on "/", drops empty and "." segments and on ".."  *)
(* removes the segment kept last, if any: "a/b/../c" gives "a/c",          *)
(* "./x/./y" gives "x/y", ".." gives ""; the result has no empty, "." or   *)
(* ".." segment, and normalizing it again changes nothing.                 *)
C11_NormalizeCollapses ==
  /\ npc \in {"once", "twice"} =>
       /\ SegmentsOf(nout) = Kept(SplitSlash(npath, "", <<>>))
       /\ \A i \in 1..Len(SegmentsOf(nout)) : SegmentsOf(nout)[i] \notin {"", ".", ".."}
       /\ npath = <<"a", "/", "b", "/", "..", "/", "c">> => nout = <<"a", "/", "c">>
       /\ npath = <<".", "/", "x", "/", ".", "/", "y">> => nout = <<"x", "/", "y">>
       /\ npath = <<"..">> => nout = <<>>
  /\ npc = "twice" => nagain = nout

C11_Witness ==
  /\ npc = "twice"
  /\ npath = <<"a", "/", "..", "/", "b">>
  /\ nout = <<"b">>

(***************************************************************************)
(* parseCBZToModel(buf)                                                    *)
(*                                                                         *)
(* An entry name is [prefix, num, ext]: the text before the number, the    *)
(* number written without leading zeros, and the extension, so             *)
(* "p/img10.png" is ["p/img", 10, "png"].                                  *)
(***************************************************************************)
MaxEntries == 3

ErrNoImages == "No images found in CBZ"

NamePrefixes == {"img", "p/img"}
NameNumbers == {1, 2, 10}
NameExts == {"png", "jpg", "txt"}

EntryNames == [prefix : NamePrefixes, num : NameNumbers, ext : NameExts]

\* the archives: entry names are distinct
CbzArchives ==
  {a \in BSeq(EntryNames, MaxEntries) : \A i, j \in 1..Len(a) : i # j => a[i] # a[j]}

\* /^.*\.(png|jpe?g|webp|gif|bmp|avif)$/i.test(p)
IsImageName(n) == n.ext \in {"png", "jpg", "jpeg", "webp", "gif", "bmp", "avif"}

\* the collation order of the texts in use: "img" < "p/img", "jpg" < "png" < "txt"
TextRank(s) ==
  CASE s = "img" -> 1
    [] s = "p/img" -> 2
    [] s = "jpg" -> 1
    [] s = "png" -> 2
    [] s = "txt" -> 3
    [] OTHER -> 0

Sign(a, b) == IF a < b THEN 0 - 1 ELSE IF a > b THEN 1 ELSE 0

\* the decimal digits of a number below 100
DigitsOf(n) == IF n < 10 THEN <<n>> ELSE <<n \div 10, n % 10>>

\* digit strings compared character by character
CompareDigits(a, b) ==
  LET D == {i \in 1..Len(a) : i > Len(b) \/ a[i] # b[i]}
      d == CHOOSE i \in D : \A j \in D : i <= j
  IN  IF D = {} THEN Sign(Len(a), Len(b))
      ELSE IF d > Len(b) THEN 1
      ELSE Sign(a[d], b[d])

\* the mutant of CompareNames: localeCompare without { numeric: true }
CompareNamesLexicographic(a, b) ==
  IF a.prefix # b.prefix THEN Sign(TextRank(a.prefix), TextRank(b.prefix))
  ELSE IF a.num # b.num THEN CompareDigits(DigitsOf(a.num), DigitsOf(b.num))
  ELSE Sign(TextRank(a.ext), TextRank(b.ext))

\* a.name.localeCompare(b.name, undefined, { numeric: true })
CompareNames(a, b) ==
  IF a.prefix # b.prefix THEN Sign(TextRank(a.prefix), TextRank(b.prefix))
  ELSE IF a.num # b.num THEN Sign(a.num, b.num)
  ELSE Sign(TextRank(a.ext), TextRank(b.ext))

\* Array.prototype.sort, which is stable: x goes after what does not come after it
InsertSorted(sorted, x) ==
  LET A == {i \in 1..Len(sorted) : CompareNames(sorted[i], x) > 0}
      at == IF A = {} THEN Len(sorted) + 1 ELSE CHOOSE i \in A : \A j \in A : i <= j
  IN  SubSeq(sorted, 1, at - 1) \o <<x>> \o SubSeq(sorted, at, Len(sorted))

RECURSIVE SortNames(_)
SortNames(fs) ==
  IF fs = <<>> THEN <<>>
  ELSE InsertSorted(SortNames(SubSeq(fs, 1, Len(fs) - 1)), fs[Len(fs)])

\* f.name.split("/").pop() || f.name
CbzIdOf(n) == (IF n.prefix = "p/img" THEN "img" ELSE n.prefix) \o ToString(n.num) \o "." \o n.ext

\* the chain of /\.png$/i ... tests
CbzMimeOf(n) ==
  CASE n.ext = "png" -> "image/png"
    [] n.ext \in {"jpg", "jpeg"} -> "image/jpeg"
    [] n.ext = "webp" -> "image/webp"
    [] n.ext = "gif" -> "image/gif"
    [] n.ext = "bmp" -> "image/bmp"
    [] n.ext = "avif" -> "image/avif"
    [] OTHER -> "application/octet-stream"

\* the bytes of an entry
CbzDataOf(n) == <<"bytes of", n.prefix, n.num, n.ext>>

\* <div style="text-align:center;"><img src="${id}" alt="${id}" style="..."/></div>
CbzChapterHtml(id) ==
  <<Open("div"),
    Img(<< <<"src", <<id>>>>, <<"alt", <<id>>>>,
           <<"style", <<"max-width:100%;height:auto;">>>> >>),
    Close("div")>>

CbzInit ==
  /\ cbz \in CbzArchives
  /\ cfiles = <<>>
  /\ cidx = 0
  /\ cchapters = <<>>
  /\ cimages = NoImages
  /\ cerr = ""
  /\ cbook = NoModel
  /\ cpc = "load"

CbzIdle ==
  /\ cbz = <<>>
  /\ cfiles = <<>>
  /\ cidx = 0
  /\ cchapters = <<>>
  /\ cimages = NoImages
  /\ cerr = ""
  /\ cbook = NoModel
  /\ cpc = "idle"

\* loadAsync, filter, sort, and the check that something is left
CbzLoad ==
  /\ cpc = "load"
  /\ LET files == SortNames(SelectSeq(cbz, IsImageName))
     IN  /\ cfiles' = files
         /\ IF Len(files) = 0
            THEN cpc' = "failed" /\ cerr' = ErrNoImages
            ELSE cpc' = "files" /\ UNCHANGED cerr
  /\ UNCHANGED <<cbz, cidx, cchapters, cimages, cbook>>
  /\ UNCHANGED cbzOthers

\* one pass of `for (const f of files)`
CbzEntry ==
  /\ cpc = "files"
  /\ cidx < Len(cfiles)
  /\ LET f == cfiles[cidx + 1]
         id == CbzIdOf(f)
     IN  /\ cimages' = PutImage(cimages, id,
                         [id |-> id, mime |-> CbzMimeOf(f), data |-> CbzDataOf(f)])
         /\ cchapters' = Append(cchapters, [html |-> CbzChapterHtml(id)])
  /\ cidx' = cidx + 1
  /\ UNCHANGED <<cbz, cfiles, cerr, cbook, cpc>>
  /\ UNCHANGED cbzOthers

\* return { title: undefined, author: undefined, chapters, images }
CbzReturn ==
  /\ cpc = "files"
  /\ cidx = Len(cfiles)
  /\ cbook' = [title |-> Undefined, author |-> Undefined, chapters |-> cchapters,
               images |-> cimages]
  /\ cpc' = "returned"
  /\ UNCHANGED <<cbz, cfiles, cidx, cchapters, cimages, cerr>>
  /\ UNCHANGED cbzOthers

CbzNext ==
  \/ CbzLoad
  \/ CbzEntry
  \/ CbzReturn

(* ---- the claim about parseCBZToModel ---- *)
ImageEntries == SelectSeq(cbz, IsImageName)

\* a comes before b in natural order: same text before the number and a
\* smaller number, or an earlier text
NaturallyBefore(a, b) ==
  \/ TextRank(a.prefix) < TextRank(b.prefix)
  \/ a.prefix = b.prefix /\ a.num < b.num
  \/ a.prefix = b.prefix /\ a.num = b.num /\ TextRank(a.ext) < TextRank(b.ext)

\* the name of the image a chapter shows
ShownBy(ch) == ch.html[2].attrs[1][2][1]

Img1 == [prefix |-> "img", num |-> 1, ext |-> "png"]
Img2 == [prefix |-> "img", num |-> 2, ext |-> "png"]
Img10 == [prefix |-> "img", num |-> 10, ext |-> "png"]

(* C12: the chapters follow the natural order of the image entry names,    *)
(* numbers compared by value: img10.png, img2.png, img1.png give img1,     *)
(* img2, img10; there is one chapter for each image entry; and an archive  *)
(* without image entry fails with "No images found in CBZ" and no model.   *)
C12_NaturalOrder ==
  /\ cpc = "returned" =>
       /\ Len(cbook.chapters) = Len(ImageEntries)
       /\ Len(cfiles) = Len(ImageEntries)
       /\ {cfiles[i] : i \in 1..Len(cfiles)} = {ImageEntries[i] : i \in 1..Len(ImageEntries)}
       /\ \A i, j \in 1..Len(cfiles) : i < j => NaturallyBefore(cfiles[i], cfiles[j])
       /\ \A i \in 1..Len(cbook.chapters) : ShownBy(cbook.chapters[i]) = CbzIdOf(cfiles[i])
       /\ cbz = <<Img10, Img2, Img1>> =>
            /\ ShownBy(cbook.chapters[1]) = "img1.png"
            /\ ShownBy(cbook.chapters[2]) = "img2.png"
            /\ ShownBy(cbook.chapters[3]) = "img10.png"
  /\ (ImageEntries = <<>> /\ cpc # "load") =>
       cpc = "failed" /\ cerr = ErrNoImages /\ cbook = NoModel /\ cchapters = <<>>
  /\ cpc = "failed" => ImageEntries = <<>>

C12_Witness ==
  /\ cpc = "returned"
  /\ cbz = <<Img10, Img2, Img1>>
  /\ Len(cbook.chapters) = 3

(***************************************************************************)
(* modelToMarkdown(model)                                                  *)
(*                                                                         *)
(* htmlToMd works on the html string with regular expressions; here each   *)
(* replace turns the tokens it matches into a text token. `.` does not     *)
(* match a newline, so an element whose content holds one is not matched.  *)
(***************************************************************************)
\* <a href="...">
OpenA(href) == [k |-> "open", tag |-> "a", s |-> <<>>, attrs |-> << <<"href", href>> >>]

\* the text of a string of tokens, tags left out
RECURSIVE TextOf(_)
TextOf(h) ==
  IF h = <<>> THEN <<>>
  ELSE (IF Head(h).k = "text" THEN Head(h).s ELSE <<>>) \o TextOf(Tail(h))

\* stripAllHtml(s)
stripAllHtml(h) == Trim(CollapseWs(TextOf(h)))

HasNewline(h) == \E i \in 1..Len(TextOf(h)) : TextOf(h)[i] = "\n"

\* the index of the attribute of that name, 0 when there is none
AttrIndex(t, name) ==
  LET S == {i \in 1..Len(t.attrs) : t.attrs[i][1] = name}
  IN  IF S = {} THEN 0 ELSE CHOOSE i \in S : \A j \in S : j <= i

\* /<img[^>]+alt=["']([^"']*)["'][^>]*src=["']([^"']+)["'][^>]*>/: an alt,
\* and after it a src with a value
ImgMatches(t) ==
  /\ t.k = "void" /\ t.tag = "img"
  /\ AttrIndex(t, "alt") > 0
  /\ AttrIndex(t, "src") > AttrIndex(t, "alt")
  /\ t.attrs[AttrIndex(t, "src")][2] # <<>>

\* `![${alt || ""}](${uri})`
MdImage(alt, uri) == <<"![">> \o alt \o <<"](">> \o uri \o <<")">>

\* const uri = dataURIs[id] || src
MdUri(src, imgs) ==
  IF BasenameOf(src) \in DOMAIN imgs THEN DataURI(imgs[BasenameOf(src)]) ELSE JoinSlash(src)

\* the first replace of htmlToMd
MdImages(h, imgs) ==
  [i \in 1..Len(h) |->
     IF ImgMatches(h[i])
     THEN Txt(MdImage(h[i].attrs[AttrIndex(h[i], "alt")][2],
                      MdUri(h[i].attrs[AttrIndex(h[i], "src")][2], imgs)))
     ELSE h[i]]

\* what an element becomes, by the replace for its tag
MdFormat(tag, open, inner) ==
  CASE tag = "a" -> <<"[">> \o stripAllHtml(inner) \o <<"](">>
                    \o JoinSlash(open.attrs[AttrIndex(open, "href")][2]) \o <<")">>
    [] tag = "h1" -> <<"#", " ">> \o stripAllHtml(inner) \o <<"\n", "\n">>
    [] tag = "h2" -> <<"##", " ">> \o stripAllHtml(inner) \o <<"\n", "\n">>
    [] tag = "h3" -> <<"###", " ">> \o stripAllHtml(inner) \o <<"\n", "\n">>
    [] tag = "li" -> <<"-", " ">> \o stripAllHtml(inner) \o <<"\n">>
    [] tag = "p" -> stripAllHtml(inner) \o <<"\n", "\n">>

\* the start tag the replace for `tag` looks for
MdOpens(t, tag) ==
  /\ t.k = "open" /\ t.tag = tag
  /\ tag = "a" => AttrIndex(t, "href") > 0 /\ t.attrs[AttrIndex(t, "href")][2] # <<>>

\* h.replace(/<tag[^>]*>(.*?)<\/tag>/gi, ...): from each start tag to the
\* first end tag after it
RECURSIVE MdElements(_, _)
MdElements(h, tag) ==
  IF h = <<>> THEN <<>>
  ELSE LET C == {i \in 2..Len(h) : h[i].k = "close" /\ h[i].tag = tag}
           c == CHOOSE i \in C : \A j \in C : i <= j
       IN  IF MdOpens(Head(h), tag) /\ C # {} /\ ~HasNewline(SubSeq(h, 2, c - 1))
           THEN <<Txt(MdFormat(tag, Head(h), SubSeq(h, 2, c - 1)))>>
                \o MdElements(SubSeq(h, c + 1, Len(h)), tag)
           ELSE <<Head(h)>> \o MdElements(Tail(h), tag)

\* h.replace(/<\/ul>/gi, "\n") and h.replace(/<br\s*\/?>/gi, "\n")
MdBreaks(h) ==
  [i \in 1..Len(h) |->
     IF \/ h[i].k = "close" /\ h[i].tag = "ul"
        \/ h[i].k = "void" /\ h[i].tag = "br"
     THEN Txt(<<"\n">>) ELSE h[i]]

\* htmlToMd(html)
htmlToMd(h, imgs) ==
  LET a == MdElements(MdImages(h, imgs), "a")
      h3 == MdElements(MdElements(MdElements(a, "h1"), "h2"), "h3")
      p == MdElements(MdBreaks(MdElements(h3, "li")), "p")
  IN  Trim(CollapseNewlines(stripAllHtml(p)))

\* "\n\n---\n\n"
MdChapterSeparator == <<"\n", "\n", "---", "\n", "\n">>

(* ---- the models exported ---- *)
\* the id parsePDFToModelAsImages gives page p, p < 10
PdfPageId(p) == "page-000" \o ToString(p) \o ".png"

\* the chapter parsePDFToModelAsImages makes of page p
PdfPageHtml(p) ==
  <<Open("div"),
    Img(<< <<"src", <<PdfPageId(p)>>>>, <<"alt", <<"Page", " ", ToString(p)>>>>,
           <<"style", <<"max-width:100%;height:auto;">>>> >>),
    Close("div")>>

MdChapterPool ==
  { CbzChapterHtml("img1.png"),
    PdfPageHtml(1),
    <<Open("p"), Txt(<<"A">>), Close("p"),
      Img(<< <<"alt", <<"a">>>>, <<"src", <<"images", "a.png">>>> >>)>>,
    <<Img(<< <<"alt", <<>>>>, <<"src", <<"none.png">>>> >>)>>,
    <<Open("h1"), Txt(<<"A", " ", "&lt;">>), Close("h1"), Open("ul"), Open("li"), Txt(<<"B">>),
      Close("li"), Close("ul"), OpenA(<<"b.html">>), Txt(<<"B">>), Close("a"), Void("br"),
      Open("p"), Txt(<<"A", "\n", "B">>), Close("p")>>,
    <<Open("p"), Txt(<<"A">>), Close("p"), Open("p"), Txt(<<"B">>), Close("p")>>,
    <<>> }

MdImageAssets ==
  [id \in {"a.png", "img1.png", PdfPageId(1)} |->
     [id |-> id, mime |-> "image/png", data |-> "png-bytes"]]

MdModels ==
  {[title |-> Undefined, author |-> Undefined,
    chapters |-> [i \in 1..Len(cs) |-> [html |-> cs[i]]], images |-> im] :
     cs \in BSeq(MdChapterPool, MaxChapters), im \in {NoImages, MdImageAssets}}

MdInit ==
  /\ mbook \in MdModels
  /\ mi = 0
  /\ mparts = <<>>
  /\ mout = <<>>
  /\ mpc = "map"

MdIdle ==
  /\ mbook = NoModel
  /\ mi = 0
  /\ mparts = <<>>
  /\ mout = <<>>
  /\ mpc = "idle"

\* one call of the .map callback
MdChapter ==
  /\ mpc = "map"
  /\ mi < Len(mbook.chapters)
  /\ mparts' = Append(mparts, htmlToMd(mbook.chapters[mi + 1].html, mbook.images))
  /\ mi' = mi + 1
  /\ UNCHANGED <<mbook, mout, mpc>>
  /\ UNCHANGED mdOthers

\* .join("\n\n---\n\n") and return
MdJoin ==
  /\ mpc = "map"
  /\ mi = Len(mbook.chapters)
  /\ mout' = Join(mparts, MdChapterSeparator)
  /\ mpc' = "done"
  /\ UNCHANGED <<mbook, mi, mparts>>
  /\ UNCHANGED mdOthers

MdNext ==
  \/ MdChapter
  \/ MdJoin

(* ---- the claim about modelToMarkdown ---- *)
Contains(s, sub) == \E i \in 0..(Len(s) - Len(sub)) : SubSeq(s, i + 1, i + Len(sub)) = sub

\* the Markdown image an <img> with an asset in the model should become
ExpectedMdImage(t, imgs) ==
  MdImage(IF AttrIndex(t, "alt") = 0 THEN <<>> ELSE t.attrs[AttrIndex(t, "alt")][2],
          DataURI(imgs[BasenameOf(t.attrs[AttrIndex(t, "src")][2])]))

HasAsset(t, imgs) ==
  /\ AttrIndex(t, "src") > 0
  /\ t.attrs[AttrIndex(t, "src")][2] # <<>>
  /\ BasenameOf(t.attrs[AttrIndex(t, "src")][2]) \in DOMAIN imgs

(* C14: every chapter <img> whose src basename is a key of model.images    *)
(* becomes a Markdown image with that asset's data: URI as target, in      *)
(* whatever order its alt and src come, the tags of the CBZ and PDF        *)
(* parsers included; the chapters are joined with "---" in chapter order.  *)
C14_ImagesBecomeMarkdown ==
  mpc = "done" =>
    /\ mout = Join(mparts, MdChapterSeparator)
    /\ Len(mparts) = Len(mbook.chapters)
    /\ \A c \in 1..Len(mbook.chapters) :
         LET tags == ImgsOf(mbook.chapters[c].html)
         IN  \A i \in 1..Len(tags) :
               HasAsset(tags[i], mbook.images) =>
                 Contains(mparts[c], ExpectedMdImage(tags[i], mbook.images))

\* the chapter has an element with one of these tags, and text after it
FollowedByText(h, tags) ==
  \E i, j \in 1..Len(h) :
     /\ i < j
     /\ h[i].k \in {"close", "void"} /\ h[i].tag \in tags
     /\ h[j].k = "text" /\ Trim(h[j].s) # <<>>

(* C26: the Markdown of a chapter keeps the line structure htmlToMd        *)
(* generates: a heading or paragraph that has text after it is followed by  *)
(* a blank line, a list item or <br> by a newline; two <p> paragraphs give  *)
(* two Markdown paragraphs with a blank line between them.                  *)
C26_LineStructureKept ==
  \A c \in 1..Len(mparts) :
     LET h == mbook.chapters[c].html
     IN  /\ FollowedByText(h, {"p", "h1", "h2", "h3"}) => Contains(mparts[c], <<"\n", "\n">>)
         /\ FollowedByText(h, {"li", "br"}) => Contains(mparts[c], <<"\n">>)

(***************************************************************************)
(* The ebook converter component (src/unnamed/part_009): convert(f, t)     *)
(* parses the file into a model, exports the model to the target, wraps     *)
(* the result in a Blob and publishes its object URL.                       *)
(***************************************************************************)

\* type TargetFmt
Targets == {"epub", "pdf", "html", "md", "txt", "rtf", "docx"}

ConvFiles ==
  { <<"b", ".", "e", "p", "u", "b">>, <<"n", ".", "v", "2", ".", "t", "x", "t">>,
    <<"d", ".", "p", "d", "f">>, <<"x", ".", "e", "x", "e">>, <<"b", "o", "o", "k">> }

\* the characters of a target token
TargetChars(t) ==
  CASE t = "epub" -> <<"e", "p", "u", "b">>
    [] t = "pdf" -> <<"p", "d", "f">>
    [] t = "html" -> <<"h", "t", "m", "l">>
    [] t = "md" -> <<"m", "d">>
    [] t = "txt" -> <<"t", "x", "t">>
    [] t = "rtf" -> <<"r", "t", "f">>
    [] t = "docx" -> <<"d", "o", "c", "x">>

\* swapExt(name, ext): the name up to its last dot, or all of it, then .ext
swapExt(name, ext) ==
  LET parts == Split(name, ".")
      base == IF Len(parts) > 1 THEN SubSeq(parts, 1, Len(parts) - 1) ELSE parts
  IN  JoinWith(base, ".") \o <<".">> \o ext

\* the messages a rejected parseAnyToModel or exportModel carries; a thrown
\* value that is not an Error is shown as "Conversion failed."
ErrUnsupportedInput == "Unsupported input"
ParseErrors == {ErrMissingContainer, ErrEmptySpine, ErrNoImages}
ExportErrors == {"export failed"}
NotAnError == "not an Error"

\* e instanceof Error ? e.message : "Conversion failed."
MessageOf(e) == IF e = NotAnError THEN "Conversion failed." ELSE e

\* zip.generateAsync({ type: "blob" }) without a mimeType
ZipBlobType == "application/zip"

NoResult == [kind |-> "none", type |-> ""]
NoBlob == [type |-> "none"]

\* exportModel(model, target): what each case of the switch returns
exportModel(t) ==
  CASE t = "epub" -> [kind |-> "Blob", type |-> "application/epub+zip"]
    [] t = "pdf" -> [kind |-> "Uint8Array", type |-> ""]
    [] t = "html" -> [kind |-> "Blob", type |-> "text/html;charset=utf-8"]
    [] t = "md" -> [kind |-> "string", type |-> ""]
    [] t = "txt" -> [kind |-> "string", type |-> ""]
    [] t = "rtf" -> [kind |-> "string", type |-> ""]
    [] t = "docx" -> [kind |-> "Blob", type |-> ZipBlobType]

\* the Blob convert builds from the result
BlobOf(o, t) ==
  IF o.kind = "Uint8Array"
  THEN [type |-> IF t = "pdf" THEN "application/pdf"
                 ELSE IF t = "epub" THEN "application/epub+zip"
                 ELSE "application/octet-stream"]
  ELSE IF o.kind = "string"
  THEN [type |-> IF t = "md" THEN "text/markdown;charset=utf-8"
                 ELSE "text/plain;charset=utf-8"]
  ELSE [type |-> o.type]

\* the mutant of clearOutput: the previous output is left in place
ClearOutputKeeps(url, name) == [outUrl |-> url, outName |-> name]

\* clearOutput(): setOutUrl(""); setOutName("")
clearOutput(url, name) == [outUrl |-> "", outName |-> <<>>]

\* Math.round(n / d * 70) for a fraction n / d
Round70(n, d) == (2 * 70 * n + d) \div (2 * d)

ProgressReports == {<<0, 1>>, <<1, 3>>, <<1, 2>>, <<1, 1>>}

MaxPages == 3

\* parsePDFToModelAsImages: Math.round((p / doc.numPages) * 100)
PagePercent(pg, n) == (2 * 100 * pg + n) \div (2 * n)

\* what the parser of each kind gives to onProgress, as fractions n / d:
\* parseEPUBToModel 0.05 and (i + 1) / spineIds.length, parsePDFToModelAsImages
\* a whole number of percent; the other parsers are not given the callback
ReportsOf(k) ==
  CASE k = "epub" -> {<<5, 100>>} \cup ProgressReports
    [] k = "pdf" -> UNION {{<<PagePercent(pg, n), 1>> : pg \in 1..n} : n \in 1..MaxPages}
    [] OTHER -> {}

ConvInit ==
  /\ vfile \in ConvFiles
  /\ vtarget \in Targets
  /\ \E prev \in {"none", "old"} :
       /\ voutUrl = IF prev = "old" THEN "blob:old" ELSE ""
       /\ voutName = IF prev = "old" THEN <<"o", "l", "d", ".", "p", "d", "f">> ELSE <<>>
  /\ verror \in {"", ErrEmptySpine}
  /\ vconverting = FALSE
  /\ vprogress = 0
  /\ vout = NoResult
  /\ vblob = NoBlob
  /\ vfailed = "none"
  /\ vcount = 0
  /\ vpc = "ready"

ConvIdle ==
  /\ vfile = <<>>
  /\ vtarget = "pdf"
  /\ voutUrl = ""
  /\ voutName = <<>>
  /\ verror = ""
  /\ vconverting = FALSE
  /\ vprogress = 0
  /\ vout = NoResult
  /\ vblob = NoBlob
  /\ vfailed = "none"
  /\ vcount = 0
  /\ vpc = "idle"

\* setError(""); setProgress(5); setConverting(true); clearOutput();
\* setProgress(10); parseAnyToModel is called
ConvStart ==
  /\ vpc = "ready"
  /\ verror' = ""
  /\ vconverting' = TRUE
  /\ voutUrl' = clearOutput(voutUrl, voutName).outUrl
  /\ voutName' = clearOutput(voutUrl, voutName).outName
  /\ vprogress' = 10
  /\ vpc' = "parsing"
  /\ UNCHANGED <<vfile, vtarget, vout, vblob, vfailed, vcount>>
  /\ UNCHANGED convOthers

\* the parser reports: (p) => setProgress(10 + Math.round(p * 70))
ConvProgress ==
  /\ vpc = "parsing"
  /\ sniffSource(vfile) # "null"
  /\ \E p \in ReportsOf(sniffSource(vfile)) : vprogress' = 10 + Round70(p[1], p[2])
  /\ UNCHANGED <<vfile, vtarget, verror, voutUrl, voutName, vconverting, vout, vblob,
                 vfailed, vcount, vpc>>
  /\ UNCHANGED convOthers

\* catch (e) { setError(...) } finally { setConverting(false) }
ConvCatch(stage, e) ==
  /\ verror' = MessageOf(e)
  /\ vconverting' = FALSE
  /\ vfailed' = stage
  /\ vpc' = "done"

\* await parseAnyToModel(...) rejects
ConvParseFails ==
  /\ vpc = "parsing"
  /\ \E e \in (IF sniffSource(vfile) = "null" THEN {ErrUnsupportedInput}
               ELSE ParseErrors \cup {NotAnError}) : ConvCatch("parse", e)
  /\ UNCHANGED <<vfile, vtarget, voutUrl, voutName, vprogress, vout, vblob, vcount>>
  /\ UNCHANGED convOthers

\* await parseAnyToModel(...) resolves; setProgress(85); exportModel is called
ConvParsed ==
  /\ vpc = "parsing"
  /\ sniffSource(vfile) # "null"
  /\ vprogress' = 85
  /\ vpc' = "exporting"
  /\ UNCHANGED <<vfile, vtarget, verror, voutUrl, voutName, vconverting, vout, vblob,
                 vfailed, vcount>>
  /\ UNCHANGED convOthers

\* await exportModel(model, t) rejects
ConvExportFails ==
  /\ vpc = "exporting"
  /\ \E e \in ExportErrors \cup {NotAnError} : ConvCatch("export", e)
  /\ UNCHANGED <<vfile, vtarget, voutUrl, voutName, vprogress, vout, vblob, vcount>>
  /\ UNCHANGED convOthers

\* await exportModel(model, t) resolves: the Blob is built, its URL and the
\* output name are set, setProgress(100), onConvert?.(1), setConverting(false)
ConvExported ==
  /\ vpc = "exporting"
  /\ vout' = exportModel(vtarget)
  /\ vblob' = BlobOf(exportModel(vtarget), vtarget)
  /\ voutUrl' = "blob:new"
  /\ voutName' = swapExt(vfile, TargetChars(vtarget))
  /\ vprogress' = 100
  /\ vcount' = vcount + 1
  /\ vconverting' = FALSE
  /\ vpc' = "done"
  /\ UNCHANGED <<vfile, vtarget, verror, vfailed>>
  /\ UNCHANGED convOthers

ConvNext ==
  \/ ConvStart
  \/ ConvProgress
  \/ ConvParseFails
  \/ ConvParsed
  \/ ConvExportFails
  \/ ConvExported

(* C16: when parseAnyToModel or exportModel fails the run ends with the    *)
(* error message set, no output URL and no output name, and converting     *)
(* false; an output URL is set only after both have succeeded.             *)
C16_NoOutputOnFailure ==
  /\ (vpc = "done" /\ vfailed # "none") =>
        /\ verror # ""
        /\ voutUrl = ""
        /\ voutName = <<>>
        /\ ~vconverting
  /\ (vpc \in {"parsing", "exporting", "done"} /\ voutUrl # "") =>
        /\ vpc = "done"
        /\ vfailed = "none"
        /\ vout # NoResult

C16_Witness ==
  /\ vpc = "done"
  /\ vfailed = "export"
  /\ verror = "export failed"
  /\ vprogress = 85

\* what the interface promises for each target
\* (a Blob counts as a binary buffer)
PromisedKinds(t) ==
  IF t \in {"pdf", "epub", "docx"} THEN {"Uint8Array", "Blob"} ELSE {"string"}

PromisedTypes(t) ==
  CASE t = "pdf" -> {"application/pdf"}
    [] t = "epub" -> {"application/epub+zip"}
    [] t = "txt" -> {"text/plain;charset=utf-8"}
    [] t = "html" -> {"text/html", "text/html;charset=utf-8"}
    [] t = "md" -> {"text/markdown", "text/markdown;charset=utf-8"}
    [] t = "rtf" -> {"application/rtf", "text/rtf"}
    [] t = "docx" ->
         {"application/vnd.openxmlformats-officedocument.wordprocessingml.document"}

(* C23: for every source kind the value parseAnyToModel reports is on the  *)
(* scale convert assumes in 10 + round(70 * p): the converter's progress    *)
(* stays within [0,100] at every step.                                      *)
C23_ProgressWithinRange == vprogress \in 0..100

(* C19: exportModel's result is a binary buffer for pdf, epub and docx and *)
(* a text string for txt, md, html and rtf, and the converter's Blob is    *)
(* tagged with the target's MIME type.                                     *)
C19_KindAndMime ==
  (vpc = "done" /\ vfailed = "none") =>
     /\ vout.kind \in PromisedKinds(vtarget)
     /\ vblob.type \in PromisedTypes(vtarget)

(***************************************************************************)
(* The lazily initialized engines: getFfmpeg (src/unnamed/part_000) and     *)
(* getPdfjs (src/lib/ebook-utils.ts), each called by several callers whose  *)
(* awaits interleave.                                                       *)
(***************************************************************************)

MaxCallers == 3
Callers == 1..MaxCallers

\* null
Null == 0

\* the module namespace import() resolves with: the loader caches the module,
\* every import of the same specifier gives the same object
PdfjsModule == 1

\* the mutant of StartsLoading: a rejected promise is replaced by a new load
StartsLoadingOrRejected(l) == l \in {"null", "rejected"}

\* if (!_loading)
StartsLoading(l) == l = "null"

EngineInit ==
  /\ gFfmpeg = Null
  /\ gLoading = "null"
  /\ created = 0
  /\ fcall = [c \in Callers |-> "idle"]
  /\ fres = [c \in Callers |-> Null]
  /\ gPdfjs = Null
  /\ imports = 0
  /\ pcall = [c \in Callers |-> "idle"]
  /\ pres = [c \in Callers |-> Null]

EngineIdle ==
  /\ gFfmpeg = Null
  /\ gLoading = "null"
  /\ created = 0
  /\ fcall = [c \in Callers |-> "off"]
  /\ fres = [c \in Callers |-> Null]
  /\ gPdfjs = Null
  /\ imports = 0
  /\ pcall = [c \in Callers |-> "off"]
  /\ pres = [c \in Callers |-> Null]

\* getFfmpeg() up to its await: if (_ffmpeg) return _ffmpeg;
\* if (!_loading) { _loading = (async () => { new FFmpeg() ... })() }
FfmpegCall(c) ==
  /\ fcall[c] = "idle"
  /\ IF gFfmpeg # Null
     THEN /\ fcall' = [fcall EXCEPT ![c] = "returned"]
          /\ fres' = [fres EXCEPT ![c] = gFfmpeg]
          /\ UNCHANGED <<gLoading, created>>
     ELSE /\ fcall' = [fcall EXCEPT ![c] = "awaiting"]
          /\ IF StartsLoading(gLoading)
             THEN /\ gLoading' = "pending"
                  /\ created' = created + 1
             ELSE UNCHANGED <<gLoading, created>>
          /\ UNCHANGED fres
  /\ UNCHANGED <<gFfmpeg, gPdfjs, imports, pcall, pres>>
  /\ UNCHANGED engineOthers

\* await ffmpeg.load() resolves: _ffmpeg = ffmpeg
FfmpegLoaded ==
  /\ gLoading = "pending"
  /\ gFfmpeg' = created
  /\ gLoading' = "fulfilled"
  /\ UNCHANGED <<created, fcall, fres, gPdfjs, imports, pcall, pres>>
  /\ UNCHANGED engineOthers

\* await ffmpeg.load() rejects: _loading stays, rejected
FfmpegLoadFails ==
  /\ gLoading = "pending"
  /\ gLoading' = "rejected"
  /\ UNCHANGED <<gFfmpeg, created, fcall, fres, gPdfjs, imports, pcall, pres>>
  /\ UNCHANGED engineOthers

\* await _loading settles for one caller: return _ffmpeg!
FfmpegResume(c) ==
  /\ fcall[c] = "awaiting"
  /\ gLoading \in {"fulfilled", "rejected"}
  /\ IF gLoading = "fulfilled"
     THEN /\ fcall' = [fcall EXCEPT ![c] = "returned"]
          /\ fres' = [fres EXCEPT ![c] = gFfmpeg]
     ELSE /\ fcall' = [fcall EXCEPT ![c] = "failed"]
          /\ UNCHANGED fres
  /\ UNCHANGED <<gFfmpeg, gLoading, created, gPdfjs, imports, pcall, pres>>
  /\ UNCHANGED engineOthers

\* getPdfjs() up to its await: if (_pdfjs) return _pdfjs; await import(...)
PdfjsCall(c) ==
  /\ pcall[c] = "idle"
  /\ IF gPdfjs # Null
     THEN /\ pcall' = [pcall EXCEPT ![c] = "returned"]
          /\ pres' = [pres EXCEPT ![c] = gPdfjs]
          /\ UNCHANGED imports
     ELSE /\ pcall' = [pcall EXCEPT ![c] = "importing"]
          /\ imports' = imports + 1
          /\ UNCHANGED pres
  /\ UNCHANGED <<gFfmpeg, gLoading, created, fcall, fres, gPdfjs>>
  /\ UNCHANGED engineOthers

\* the import resolves for one caller: workerSrc is set, _pdfjs = mod; return mod
PdfjsImported(c) ==
  /\ pcall[c] = "importing"
  /\ gPdfjs' = PdfjsModule
  /\ pcall' = [pcall EXCEPT ![c] = "returned"]
  /\ pres' = [pres EXCEPT ![c] = PdfjsModule]
  /\ UNCHANGED <<gFfmpeg, gLoading, created, fcall, fres, imports>>
  /\ UNCHANGED engineOthers

\* the import rejects for one caller
PdfjsImportFails(c) ==
  /\ pcall[c] = "importing"
  /\ gPdfjs = Null
  /\ pcall' = [pcall EXCEPT ![c] = "failed"]
  /\ UNCHANGED <<gFfmpeg, gLoading, created, fcall, fres, gPdfjs, imports, pres>>
  /\ UNCHANGED engineOthers

EngineNext ==
  \/ \E c \in Callers : FfmpegCall(c)
  \/ FfmpegLoaded
  \/ FfmpegLoadFails
  \/ \E c \in Callers : FfmpegResume(c)
  \/ \E c \in Callers : PdfjsCall(c)
  \/ \E c \in Callers : PdfjsImported(c)
  \/ \E c \in Callers : PdfjsImportFails(c)

\* getFfmpeg alone: one initialization, one instance for every caller
FfmpegInitializedOnce ==
  /\ created <= 1
  /\ \A c \in Callers : fcall[c] = "awaiting" => gLoading # "null"
  /\ \A c \in Callers : fcall[c] = "returned" => (fres[c] # Null /\ fres[c] = gFfmpeg)

\* getPdfjs alone
PdfjsInitializedOnce ==
  /\ imports <= 1
  /\ \A c \in Callers : pcall[c] = "returned" => (pres[c] # Null /\ pres[c] = gPdfjs)

(* C27: getFfmpeg never retries: after ffmpeg.load() has rejected the      *)
(* instance cell stays empty, the rejected promise is kept, every call      *)
(* fails and no new load is started; after a load has succeeded every call  *)
(* returns that one instance and nothing is loaded again.                   *)
C27_NoRetry ==
  /\ created <= 1
  /\ gLoading = "rejected" =>
        /\ gFfmpeg = Null
        /\ \A c \in Callers : fcall[c] \notin {"returned"}
  /\ \A c \in Callers : fcall[c] = "failed" => gLoading = "rejected"
  /\ gFfmpeg # Null =>
        /\ gLoading = "fulfilled"
        /\ gFfmpeg = created
        /\ \A c \in Callers : fcall[c] # "failed"
        /\ \A c \in Callers : fcall[c] = "returned" => fres[c] = gFfmpeg

\* the load was rejected and every caller, early or late, has failed
C27_Witness ==
  /\ gLoading = "rejected"
  /\ created = 1
  /\ \A c \in Callers : fcall[c] = "failed"

(* C17: each singleton engine is initialized at most once: when several    *)
(* callers ask for it before the first initialization has finished, one     *)
(* initialization is started, and every caller awaits it and receives the   *)
(* same instance.                                                           *)
C17_InitializedOnce == FfmpegInitializedOnce /\ PdfjsInitializedOnce

(***************************************************************************)
(* The image converter (src/components/convert/image-convert-section.tsx):  *)
(* convertAll() decodes, renders and encodes the dropped files in a loop.   *)
(***************************************************************************)

MaxFiles == 3

\* what happens to a file: every await of its pass resolves, or the named
\* one rejects
Fates == {"ok", "decode", "render", "encode"}

ErrEncode == "Failed to encode"

\* e?.message || "Conversion failed"
BatchMessage(stage) == IF stage = "encode" THEN ErrEncode ELSE "Conversion failed"

\* Math.round(((i + 1) / files.length) * 100), i counted from 1 here
Percent(i, n) == (2 * 100 * i + n) \div (2 * n)

\* the mutant of Settle: the list is published whether or not the loop ended
SettleAlways(failed, results, out) == out

\* setResults(out) is the last statement of the try: it runs only when no
\* await of the loop rejected
Settle(failed, results, out) == IF failed THEN results ELSE out

\* what an earlier run left in results: its one file, written 0
PreviousResults == <<0>>

BatchInit ==
  /\ bfiles \in BSeq(Fates, MaxFiles)
  /\ bi = 0
  /\ bout = <<>>
  /\ bresults \in {<<>>, PreviousResults}
  /\ bbusy = FALSE
  /\ berror \in {"", ErrEncode}
  /\ bprogress \in {0, 100}
  /\ bstarted = {}
  /\ bfinished = {}
  /\ bpc = "ready"

BatchIdle ==
  /\ bfiles = <<>>
  /\ bi = 0
  /\ bout = <<>>
  /\ bresults = <<>>
  /\ bbusy = FALSE
  /\ berror = ""
  /\ bprogress = 0
  /\ bstarted = {}
  /\ bfinished = {}
  /\ bpc = "idle"

\* if (!files.length ...) return
BatchNothing ==
  /\ bpc = "ready"
  /\ Len(bfiles) = 0
  /\ bpc' = "done"
  /\ UNCHANGED <<bfiles, bi, bout, bresults, bbusy, berror, bprogress, bstarted, bfinished>>
  /\ UNCHANGED batchOthers

\* setBusy(true); setError(""); setProgress(0); out = []; decodeFile(files[0])
BatchStart ==
  /\ bpc = "ready"
  /\ Len(bfiles) > 0
  /\ bbusy' = TRUE
  /\ berror' = ""
  /\ bprogress' = 0
  /\ bout' = <<>>
  /\ bi' = 1
  /\ bstarted' = {1}
  /\ bpc' = "decode"
  /\ UNCHANGED <<bfiles, bresults, bfinished>>
  /\ UNCHANGED batchOthers

\* await decodeFile(f) resolves; renderCropToCanvas is called
BatchDecoded ==
  /\ bpc = "decode"
  /\ bfiles[bi] # "decode"
  /\ bpc' = "render"
  /\ UNCHANGED <<bfiles, bi, bout, bresults, bbusy, berror, bprogress, bstarted, bfinished>>
  /\ UNCHANGED batchOthers

\* await renderCropToCanvas(...) resolves; the encoder is called
BatchRendered ==
  /\ bpc = "render"
  /\ bfiles[bi] # "render"
  /\ bpc' = "encode"
  /\ UNCHANGED <<bfiles, bi, bout, bresults, bbusy, berror, bprogress, bstarted, bfinished>>
  /\ UNCHANGED batchOthers

\* the encoder resolves: out.push(...); setProgress(...); requestAnimationFrame
BatchEncoded ==
  /\ bpc = "encode"
  /\ bfiles[bi] # "encode"
  /\ bout' = Append(bout, bi)
  /\ bprogress' = Percent(bi, Len(bfiles))
  /\ bpc' = "yield"
  /\ UNCHANGED <<bfiles, bi, bresults, bbusy, berror, bstarted, bfinished>>
  /\ UNCHANGED batchOthers

\* the animation frame arrives with files left: i++; decodeFile(files[i])
BatchYielded ==
  /\ bpc = "yield"
  /\ bi < Len(bfiles)
  /\ bfinished' = bfinished \cup {bi}
  /\ bi' = bi + 1
  /\ bstarted' = bstarted \cup {bi + 1}
  /\ bpc' = "decode"
  /\ UNCHANGED <<bfiles, bout, bresults, bbusy, berror, bprogress>>
  /\ UNCHANGED batchOthers

\* the animation frame arrives after the last file: setResults(out); finally
BatchDone ==
  /\ bpc = "yield"
  /\ bi = Len(bfiles)
  /\ bfinished' = bfinished \cup {bi}
  /\ bresults' = Settle(FALSE, bresults, bout)
  /\ bbusy' = FALSE
  /\ bpc' = "done"
  /\ UNCHANGED <<bfiles, bi, bout, berror, bprogress, bstarted>>
  /\ UNCHANGED batchOthers

\* an await of the pass rejects: catch, finally
BatchFails ==
  /\ bpc \in {"decode", "render", "encode"}
  /\ bfiles[bi] = bpc
  /\ berror' = BatchMessage(bpc)
  /\ bresults' = Settle(TRUE, bresults, bout)
  /\ bbusy' = FALSE
  /\ bpc' = "failed"
  /\ UNCHANGED <<bfiles, bi, bout, bprogress, bstarted, bfinished>>
  /\ UNCHANGED batchOthers

BatchNext ==
  \/ BatchNothing
  \/ BatchStart
  \/ BatchDecoded
  \/ BatchRendered
  \/ BatchEncoded
  \/ BatchYielded
  \/ BatchDone
  \/ BatchFails

\* the first file whose pass has a rejecting await, 0 when there is none
FirstFailing ==
  LET F == {i \in 1..Len(bfiles) : bfiles[i] # "ok"}
  IN  IF F = {} THEN 0 ELSE CHOOSE i \in F : \A j \in F : i <= j

(* C18: convertAll handles the files one at a time in index order: the     *)
(* decoding of a file starts only after the file before it was encoded,     *)
(* recorded, reported and followed by an animation-frame yield, and two     *)
(* files are never in flight. When a file fails the loop stops, results is  *)
(* not given the partial list, and busy is reset to false.                  *)
C18_OneAtATime ==
  /\ Cardinality(bstarted \ bfinished) <= 1
  /\ \A j \in bstarted : \A k \in 1..(j - 1) :
        /\ k \in bfinished
        /\ k \in bstarted
        /\ k <= Len(bout) /\ bout[k] = k
        /\ bprogress >= Percent(k, Len(bfiles))
  /\ bpc = "failed" =>
        /\ bi = FirstFailing
        /\ bstarted = 1..bi
        /\ bresults \in {<<>>, PreviousResults}
        /\ ~bbusy
        /\ berror # ""
  /\ bpc = "done" /\ Len(bfiles) > 0 =>
        /\ bresults = [k \in 1..Len(bfiles) |-> k]
        /\ ~bbusy

C18_Witness ==
  /\ bpc = "failed"
  /\ bfiles = <<"ok", "ok", "encode">>
  /\ bout = <<1, 2>>
  /\ bresults = PreviousResults

(***************************************************************************)
(* textToRtf(text): the RTF export. A character is one symbol; the          *)
(* backslash is written "\\".                                               *)
(***************************************************************************)

MaxRtfLen == 4

RtfAlphabet == {"\\", "{", "}", "\n", "p", "a", "r"}

\* s.replace(/c/g, by) for a one-character pattern
RECURSIVE ReplaceChar(_, _, _)
ReplaceChar(s, c, by) ==
  IF s = <<>> THEN <<>>
  ELSE (IF Head(s) = c THEN by ELSE <<Head(s)>>) \o ReplaceChar(Tail(s), c, by)

\* the mutant of esc: the braces are escaped before the backslashes
escBracesFirst(s) ==
  ReplaceChar(ReplaceChar(ReplaceChar(s, "{", <<"\\", "{">>), "}", <<"\\", "}">>),
              "\\", <<"\\", "\\">>)

\* s.replace(/\\/g, "\\\\").replace(/{/g, "\\{").replace(/}/g, "\\}")
esc(s) ==
  ReplaceChar(ReplaceChar(ReplaceChar(s, "\\", <<"\\", "\\">>), "{", <<"\\", "{">>),
              "}", <<"\\", "}">>)

RtfPar == <<"\\", "p", "a", "r", "\n">>
RtfHead == <<"{", "\\", "r", "t", "f", "1", "\\", "a", "n", "s", "i", "\n">>
RtfTail == <<"\n", "}">>

\* `{\\rtf1\\ansi\n${body}\n}` with body = esc(text).replace(/\n/g, "\\par\n")
textToRtf(s) == RtfHead \o ReplaceChar(esc(s), "\n", RtfPar) \o RtfTail

RtfInit ==
  /\ rtfText \in BSeq(RtfAlphabet, MaxRtfLen)
  /\ rtfOut = <<>>
  /\ rtfPc = "call"

RtfIdle ==
  /\ rtfText = <<>>
  /\ rtfOut = <<>>
  /\ rtfPc = "idle"

RtfExport ==
  /\ rtfPc = "call"
  /\ rtfOut' = textToRtf(rtfText)
  /\ rtfPc' = "returned"
  /\ UNCHANGED rtfText
  /\ UNCHANGED rtfOthers

RtfNext == RtfExport

\* an RTF reader's view of a body: "\\" before a backslash or a brace gives
\* that character, \par and its newline give a newline; a brace or a newline
\* that is not escaped, or a backslash before anything else, gives "?"
RECURSIVE RtfRead(_)
RtfRead(b) ==
  IF b = <<>> THEN <<>>
  ELSE IF Head(b) = "\\"
  THEN IF Len(b) >= 2 /\ b[2] \in {"\\", "{", "}"}
       THEN <<b[2]>> \o RtfRead(SubSeq(b, 3, Len(b)))
       ELSE IF Len(b) >= 5 /\ SubSeq(b, 1, 5) = RtfPar
       THEN <<"\n">> \o RtfRead(SubSeq(b, 6, Len(b)))
       ELSE <<"?">>
  ELSE IF Head(b) \in {"{", "}", "\n"} THEN <<"?">>
  ELSE <<Head(b)>> \o RtfRead(Tail(b))

\* the output without its shell
RtfBody(out) == SubSeq(out, Len(RtfHead) + 1, Len(out) - Len(RtfTail))

(* C25: textToRtf escapes its input exactly once: the output is the RTF    *)
(* shell around a body in which every backslash and brace of the input is   *)
(* preceded by one escaping backslash and every newline is \par and a       *)
(* newline, so the body reads back as the input and has no brace of its     *)
(* own; its length is that of the input plus one per escaped character and  *)
(* four per newline.                                                        *)
C25_EscapedOnce ==
  rtfPc = "returned" =>
    /\ SubSeq(rtfOut, 1, Len(RtfHead)) = RtfHead
    /\ SubSeq(rtfOut, Len(rtfOut) - 1, Len(rtfOut)) = RtfTail
    /\ RtfRead(RtfBody(rtfOut)) = rtfText
    /\ Len(RtfBody(rtfOut)) =
         Len(rtfText)
         + Cardinality({i \in 1..Len(rtfText) : rtfText[i] \in {"\\", "{", "}"}})
         + 4 * Cardinality({i \in 1..Len(rtfText) : rtfText[i] = "\n"})

C25_Witness ==
  /\ rtfPc = "returned"
  /\ rtfText = <<"\\", "{", "\n", "}">>
  /\ RtfBody(rtfOut) = <<"\\", "\\", "\\", "{", "\\", "p", "a", "r", "\n", "\\", "}">>

(***************************************************************************)
(* convertAudioBrowser (src/unnamed/part_000): each call attaches its       *)
(* progress handler to the shared engine, writes, runs and reads, and       *)
(* detaches in its finally. Calls may overlap.                              *)
(***************************************************************************)

MaxCalls == 2
Calls == 1..MaxCalls

\* the step of a call that throws: the size check, getFfmpeg, writeFile, exec,
\* readFile / asUint8, or none
AudioFates == {"ok", "size", "engine", "write", "exec", "read"}

Settled(pcs, c) == pcs[c] \in {"resolved", "rejected"}

\* the mutant of Detach: the handler is removed only when the try completes
DetachUnlessThrown(hs, c, cb, threw) == IF cb /\ ~threw THEN hs \ {c} ELSE hs

\* finally { if (detach) detach(); }
Detach(hs, c, cb, threw) == IF cb THEN hs \ {c} ELSE hs

AudioInit ==
  /\ acalls \in [Calls -> [cb : BOOLEAN, fate : AudioFates]]
  /\ apc = [c \in Calls |-> "idle"]
  /\ handlers = {}
  /\ notified = {}
  /\ late = {}

AudioIdle ==
  /\ acalls = [c \in Calls |-> [cb |-> FALSE, fate |-> "ok"]]
  /\ apc = [c \in Calls |-> "off"]
  /\ handlers = {}
  /\ notified = {}
  /\ late = {}

\* the call starts: the size check, then await getFfmpeg()
AudioCall(c) ==
  /\ apc[c] = "idle"
  /\ apc' = [apc EXCEPT ![c] = IF acalls[c].fate = "size" THEN "rejected" ELSE "engine"]
  /\ UNCHANGED <<acalls, handlers, notified, late>>
  /\ UNCHANGED audioOthers

\* getFfmpeg() settles: on success the handler is attached and the try is
\* entered, up to await ffmpeg.writeFile
AudioAttach(c) ==
  /\ apc[c] = "engine"
  /\ IF acalls[c].fate = "engine"
     THEN /\ apc' = [apc EXCEPT ![c] = "rejected"]
          /\ UNCHANGED handlers
     ELSE /\ apc' = [apc EXCEPT ![c] = "write"]
          /\ handlers' = IF acalls[c].cb THEN handlers \cup {c} ELSE handlers
  /\ UNCHANGED <<acalls, notified, late>>
  /\ UNCHANGED audioOthers

\* an await of the try resolves: writeFile -> exec -> readFile -> return,
\* the finally running before the call resolves
AudioStep(c) ==
  /\ apc[c] \in {"write", "exec", "read"}
  /\ acalls[c].fate # apc[c]
  /\ apc' = [apc EXCEPT ![c] = CASE apc[c] = "write" -> "exec"
                                   [] apc[c] = "exec" -> "read"
                                   [] apc[c] = "read" -> "resolved"]
  /\ handlers' = IF apc[c] = "read" THEN Detach(handlers, c, acalls[c].cb, FALSE)
                 ELSE handlers
  /\ UNCHANGED <<acalls, notified, late>>
  /\ UNCHANGED audioOthers

\* an await of the try rejects: the finally runs, the call rejects
AudioThrow(c) ==
  /\ apc[c] \in {"write", "exec", "read"}
  /\ acalls[c].fate = apc[c]
  /\ apc' = [apc EXCEPT ![c] = "rejected"]
  /\ handlers' = Detach(handlers, c, acalls[c].cb, TRUE)
  /\ UNCHANGED <<acalls, notified, late>>
  /\ UNCHANGED audioOthers

\* the engine emits "progress" while some call's exec runs: every attached
\* handler is invoked
AudioProgress ==
  /\ \E c \in Calls : apc[c] = "exec"
  /\ notified' = notified \cup handlers
  /\ late' = late \cup {c \in handlers : Settled(apc, c)}
  /\ UNCHANGED <<acalls, apc, handlers>>
  /\ UNCHANGED audioOthers

AudioNext ==
  \/ \E c \in Calls : AudioCall(c)
  \/ \E c \in Calls : AudioAttach(c)
  \/ \E c \in Calls : AudioStep(c)
  \/ \E c \in Calls : AudioThrow(c)
  \/ AudioProgress

(* C28: convertAudioBrowser detaches its progress handler on every exit    *)
(* path: once a call has settled, by return or by a throw of write, exec    *)
(* or read, its handler is not attached to the shared engine, and its       *)
(* callback is never invoked by a later conversion.                         *)
C28_HandlerDetached ==
  /\ \A c \in Calls : Settled(apc, c) => c \notin handlers
  /\ late = {}
  /\ \A c \in handlers : acalls[c].cb /\ apc[c] \in {"write", "exec", "read"}

\* a call whose exec threw has settled while the other call's exec reports
\* progress to its own callback
C28_Witness ==
  /\ apc[1] = "rejected" /\ acalls[1].fate = "exec" /\ acalls[1].cb
  /\ apc[2] = "exec" /\ 2 \in notified /\ 1 \in notified

(***************************************************************************)
(* useFx(base) (src/lib/currency-converter/fx.ts): each change of base      *)
(* cleans up the running effect and starts a new fetch; the responses       *)
(* arrive in any order.                                                     *)
(***************************************************************************)

MaxFetches == 3

Bases == {"EUR", "USD"}

ErrFetch == "Failed to fetch rates"
FxErrors == {ErrFetch, "FX fetch failed"}

\* the cleanup of every effect still registered: cancelled = true
CleanUp(runs) == [i \in 1..Len(runs) |-> [runs[i] EXCEPT !.cancelled = TRUE]]

FxInit ==
  /\ fxBase = ""
  /\ fxMounted = TRUE
  /\ fxData = "null"
  /\ fxLoading = TRUE
  /\ fxErr = ""
  /\ fxRuns = <<>>
  /\ fxStale = {}

FxIdle ==
  /\ fxBase = ""
  /\ fxMounted = FALSE
  /\ fxData = "null"
  /\ fxLoading = TRUE
  /\ fxErr = ""
  /\ fxRuns = <<>>
  /\ fxStale = {}

\* the mount, or a render with another base: the cleanup of the previous
\* effect, then the effect: setLoading(true); setErr(""); fetch(...)
FxEffect(b) ==
  /\ fxMounted
  /\ b # fxBase
  /\ Len(fxRuns) < MaxFetches
  /\ fxBase' = b
  /\ fxRuns' = Append(CleanUp(fxRuns), [base |-> b, cancelled |-> FALSE, pc |-> "fetch"])
  /\ fxLoading' = TRUE
  /\ fxErr' = ""
  /\ UNCHANGED <<fxMounted, fxData, fxStale>>
  /\ UNCHANGED fxOthers

\* the component unmounts: the cleanup runs; later setState calls do nothing
FxUnmount ==
  /\ fxMounted
  /\ fxRuns # <<>>
  /\ fxMounted' = FALSE
  /\ fxRuns' = CleanUp(fxRuns)
  /\ UNCHANGED <<fxBase, fxData, fxLoading, fxErr, fxStale>>
  /\ UNCHANGED fxOthers

\* the state after a run has written to it, and the record of a write by a
\* run that had been cleaned up
FxWrite(r, data, loading, err) ==
  /\ fxData' = IF fxMounted THEN data ELSE fxData
  /\ fxLoading' = IF fxMounted THEN loading ELSE fxLoading
  /\ fxErr' = IF fxMounted THEN err ELSE fxErr
  /\ fxStale' = IF /\ fxRuns[r].cancelled
                   /\ <<fxData', fxLoading', fxErr'>> # <<fxData, fxLoading, fxErr>>
                THEN fxStale \cup {r} ELSE fxStale

\* await fetch(...) resolves with res.ok
FxResponse(r) ==
  /\ r <= Len(fxRuns)
  /\ fxRuns[r].pc = "fetch"
  /\ fxRuns' = [fxRuns EXCEPT ![r].pc = "json"]
  /\ UNCHANGED <<fxBase, fxMounted, fxData, fxLoading, fxErr, fxStale>>
  /\ UNCHANGED fxOthers

\* await res.json() resolves: if (!cancelled) setData(json); finally
FxLoaded(r) ==
  /\ r <= Len(fxRuns)
  /\ fxRuns[r].pc = "json"
  /\ fxRuns' = [fxRuns EXCEPT ![r].pc = "done"]
  /\ IF fxRuns[r].cancelled
     THEN FxWrite(r, fxData, fxLoading, fxErr)
     ELSE FxWrite(r, fxRuns[r].base, FALSE, fxErr)
  /\ UNCHANGED <<fxBase, fxMounted>>
  /\ UNCHANGED fxOthers

\* fetch rejects, res.ok is false or res.json() rejects:
\* catch { setErr(e?.message || "FX fetch failed") } finally { ... }
FxFailed(r) ==
  /\ r <= Len(fxRuns)
  /\ fxRuns[r].pc \in {"fetch", "json"}
  /\ fxRuns' = [fxRuns EXCEPT ![r].pc = "failed"]
  /\ \E e \in FxErrors :
       FxWrite(r, fxData, IF fxRuns[r].cancelled THEN fxLoading ELSE FALSE, e)
  /\ UNCHANGED <<fxBase, fxMounted>>
  /\ UNCHANGED fxOthers

FxNext ==
  \/ \E b \in Bases : FxEffect(b)
  \/ FxUnmount
  \/ \E r \in 1..MaxFetches : FxResponse(r)
  \/ \E r \in 1..MaxFetches : FxLoaded(r)
  \/ \E r \in 1..MaxFetches : FxFailed(r)

(* C30: a rate fetch that has been superseded, its effect cleaned up by a  *)
(* change of base or by the unmount, never changes the hook's state:        *)
(* neither its success nor its failure alters data, err or loading.         *)
C30_SupersededNeverWrites == fxStale = {}

(***************************************************************************)
(* Specifications                                                          *)
(***************************************************************************)
InitWrap ==
  /\ WrapInit
  /\ PdfIdle
  /\ RouterIdle
  /\ EpubIdle
  /\ TextIdle
  /\ PathIdle
  /\ CbzIdle
  /\ MdIdle
  /\ ConvIdle
  /\ EngineIdle
  /\ BatchIdle
  /\ RtfIdle
  /\ AudioIdle
  /\ FxIdle
SpecWrap == InitWrap /\ [][WrapNext]_vars

InitPdf ==
  /\ PdfInit
  /\ WrapIdle
  /\ RouterIdle
  /\ EpubIdle
  /\ TextIdle
  /\ PathIdle
  /\ CbzIdle
  /\ MdIdle
  /\ ConvIdle
  /\ EngineIdle
  /\ BatchIdle
  /\ RtfIdle
  /\ AudioIdle
  /\ FxIdle
SpecPdf == InitPdf /\ [][PdfNext]_vars

InitRouter ==
  /\ RouterInit
  /\ WrapIdle
  /\ PdfIdle
  /\ EpubIdle
  /\ TextIdle
  /\ PathIdle
  /\ CbzIdle
  /\ MdIdle
  /\ ConvIdle
  /\ EngineIdle
  /\ BatchIdle
  /\ RtfIdle
  /\ AudioIdle
  /\ FxIdle
SpecRouter == InitRouter /\ [][RouterNext]_vars

InitEpub ==
  /\ EpubInit
  /\ WrapIdle
  /\ PdfIdle
  /\ RouterIdle
  /\ TextIdle
  /\ PathIdle
  /\ CbzIdle
  /\ MdIdle
  /\ ConvIdle
  /\ EngineIdle
  /\ BatchIdle
  /\ RtfIdle
  /\ AudioIdle
  /\ FxIdle
SpecEpub == InitEpub /\ [][EpubNext]_vars

InitText ==
  /\ TextInit
  /\ WrapIdle
  /\ PdfIdle
  /\ RouterIdle
  /\ EpubIdle
  /\ PathIdle
  /\ CbzIdle
  /\ MdIdle
  /\ ConvIdle
  /\ EngineIdle
  /\ BatchIdle
  /\ RtfIdle
  /\ AudioIdle
  /\ FxIdle
SpecText == InitText /\ [][TextNext]_vars

InitPath ==
  /\ PathInit
  /\ WrapIdle
  /\ PdfIdle
  /\ RouterIdle
  /\ EpubIdle
  /\ TextIdle
  /\ CbzIdle
  /\ MdIdle
  /\ ConvIdle
  /\ EngineIdle
  /\ BatchIdle
  /\ RtfIdle
  /\ AudioIdle
  /\ FxIdle
SpecPath == InitPath /\ [][PathNext]_vars

InitCbz ==
  /\ CbzInit
  /\ WrapIdle
  /\ PdfIdle
  /\ RouterIdle
  /\ EpubIdle
  /\ TextIdle
  /\ PathIdle
  /\ MdIdle
  /\ ConvIdle
  /\ EngineIdle
  /\ BatchIdle
  /\ RtfIdle
  /\ AudioIdle
  /\ FxIdle
SpecCbz == InitCbz /\ [][CbzNext]_vars

InitMd ==
  /\ MdInit
  /\ WrapIdle
  /\ PdfIdle
  /\ RouterIdle
  /\ EpubIdle
  /\ TextIdle
  /\ PathIdle
  /\ CbzIdle
  /\ ConvIdle
  /\ EngineIdle
  /\ BatchIdle
  /\ RtfIdle
  /\ AudioIdle
  /\ FxIdle
SpecMd == InitMd /\ [][MdNext]_vars

InitConv ==
  /\ ConvInit
  /\ WrapIdle
  /\ PdfIdle
  /\ RouterIdle
  /\ EpubIdle
  /\ TextIdle
  /\ PathIdle
  /\ CbzIdle
  /\ MdIdle
  /\ EngineIdle
  /\ BatchIdle
  /\ RtfIdle
  /\ AudioIdle
  /\ FxIdle
SpecConv == InitConv /\ [][ConvNext]_vars

InitEngine ==
  /\ EngineInit
  /\ WrapIdle
  /\ PdfIdle
  /\ RouterIdle
  /\ EpubIdle
  /\ TextIdle
  /\ PathIdle
  /\ CbzIdle
  /\ MdIdle
  /\ ConvIdle
  /\ BatchIdle
  /\ RtfIdle
  /\ AudioIdle
  /\ FxIdle
SpecEngine == InitEngine /\ [][EngineNext]_vars

InitBatch ==
  /\ BatchInit
  /\ WrapIdle
  /\ PdfIdle
  /\ RouterIdle
  /\ EpubIdle
  /\ TextIdle
  /\ PathIdle
  /\ CbzIdle
  /\ MdIdle
  /\ ConvIdle
  /\ EngineIdle
  /\ RtfIdle
  /\ AudioIdle
  /\ FxIdle
SpecBatch == InitBatch /\ [][BatchNext]_vars

InitRtf ==
  /\ RtfInit
  /\ WrapIdle
  /\ PdfIdle
  /\ RouterIdle
  /\ EpubIdle
  /\ TextIdle
  /\ PathIdle
  /\ CbzIdle
  /\ MdIdle
  /\ ConvIdle
  /\ EngineIdle
  /\ BatchIdle
  /\ AudioIdle
  /\ FxIdle
SpecRtf == InitRtf /\ [][RtfNext]_vars

InitAudio ==
  /\ AudioInit
  /\ WrapIdle
  /\ PdfIdle
  /\ RouterIdle
  /\ EpubIdle
  /\ TextIdle
  /\ PathIdle
  /\ CbzIdle
  /\ MdIdle
  /\ ConvIdle
  /\ EngineIdle
  /\ BatchIdle
  /\ RtfIdle
  /\ FxIdle
SpecAudio == InitAudio /\ [][AudioNext]_vars

InitFx ==
  /\ FxInit
  /\ WrapIdle
  /\ PdfIdle
  /\ RouterIdle
  /\ EpubIdle
  /\ TextIdle
  /\ PathIdle
  /\ CbzIdle
  /\ MdIdle
  /\ ConvIdle
  /\ EngineIdle
  /\ BatchIdle
  /\ RtfIdle
  /\ AudioIdle
SpecFx == InitFx /\ [][FxNext]_vars
====
